---- MODULE Spec2Model ----
(***************************************************************************)
(* smolapps: the TFTP server (src/src/tftp/mod.rs) and its wire codec      *)
(* (src/src/wire/tftp.rs), modelled as a state machine whose steps are     *)
(* calls to Server::serve made by the owner's event loop.                  *)
(*                                                                         *)
(* Byte buffers are sequences of 0..255; Rust's 0-based offset k is the    *)
(* TLA+ index k + 1.  Option<T> is the empty sequence (None) or a          *)
(* one-element sequence (Some).  A packet handed to socket.send is logged  *)
(* as the Repr that was emitted into it.                                   *)
(***************************************************************************)
EXTENDS Integers, Sequences, FiniteSets, TLC

\* ------------------------------------------------------------------ bounds

\* The clock of SpecTimer runs TimerTicks periods of RETRY_TIMEOUT beyond
\* the MAX_RETRIES + 1 periods that a silent transfer may last.
TimerTicks == 1
\* Requests stop arriving once Context::open has returned MaxOpens handles.
MaxOpens == 2
\* Capacity of a borrowed (fixed) transfer table.
NumSlots == 1
\* The tx buffer accepts at most MaxTxRoom packets during one serve call.
MaxTxRoom == 2
\* The SNTP client's owner stops polling once MaxRequests requests have been
\* sent or MaxAccepts responses accepted.
MaxRequests == 13
MaxAccepts == 2
\* The owner may call MIN_REQUEST_INTERVAL past the deadline until MaxLate
\* requests have been sent, and calls no later than the deadline afterwards.
MaxLate == 2
MaxBufLen == 4
MaxTimerSteps == 3
\* The clock of SpecReset runs for ResetTicks periods of RETRY_TIMEOUT.
ResetTicks == 2

\* -------------------------------------------------------- program constants

MAX_RETRIES == 10
RETRY_TIMEOUT == 200
TFTP_PORT == 69
\* Duration::from_millis(50): the scheduling floor and the first timeout.
POLL_MILLIS == 50
\* The block size, written 512 throughout the source.
BLOCK_SIZE == 512
U16_MAX == 65535
\* sntp/mod.rs: Duration { millis: 60 * 1_000 } and { millis: 24 * 60 * 60 * 1_000 }.
MIN_REQUEST_INTERVAL == 60000
MAX_REQUEST_INTERVAL == 86400000
DIFF_SEC_1970_2036 == 2085978496
SNTP_PORT == 123
\* wire/tftp.rs, test_emit: the byte a buffer holds before a record is emitted.
FILLER == 165
\* wire/sntp.rs: the length of an SNTP packet.
SNTP_LEN == 48

\* ------------------------------------------------------------------ helpers

None == <<>>
Some(v) == <<v>>

Min(a, b) == IF a < b THEN a ELSE b

Fill(n, b) == [i \in 1..n |-> b]

Ok(v) == [ok |-> TRUE, val |-> v]
Err(e) == [ok |-> FALSE, err |-> e]

\* ------------------------------------------------------ wire codec (tftp.rs)

\* NetworkEndian::read_u16 of the two bytes at 0-based offset `at`.
read_u16(buf, at) == buf[at + 1] * 256 + buf[at + 2]

\* enum_with_unknown! OpCode(u16): From<u16>.
OpCode(n) ==
    CASE n = 1 -> "Read"
      [] n = 2 -> "Write"
      [] n = 3 -> "Data"
      [] n = 4 -> "Ack"
      [] n = 5 -> "Error"
      [] OTHER -> "Unknown"

\* enum_with_unknown! ErrorCode(u16): the variants, Unknown(n) keeping n.
FileNotFound == [code |-> "FileNotFound"]
AccessViolation == [code |-> "AccessViolation"]
IllegalOperation == [code |-> "IllegalOperation"]

\* enum_with_unknown! ErrorCode(u16): From<u16>.
ErrorCode(n) ==
    CASE n = 0 -> [code |-> "Undefined"]
      [] n = 1 -> FileNotFound
      [] n = 2 -> AccessViolation
      [] n = 3 -> [code |-> "DiskFull"]
      [] n = 4 -> IllegalOperation
      [] n = 5 -> [code |-> "UnknownID"]
      [] n = 6 -> [code |-> "FileExists"]
      [] n = 7 -> [code |-> "NoSuchUser"]
      [] OTHER -> [code |-> "Unknown", n |-> n]

\* A conversion that knows the lower-case letters only.
Mode_lower_case(b) ==
    CASE b = 110 -> "NetAscii"
      [] b = 111 -> "Octet"
      [] b = 109 -> "Mail"
      [] OTHER -> "Unknown"

\* impl From<u8> for Mode.
Mode(b) ==
    CASE b \in {78, 110} -> "NetAscii"
      [] b \in {79, 111} -> "Octet"
      [] b \in {77, 109} -> "Mail"
      [] OTHER -> "Unknown"

\* Packet::opcode.
opcode(buf) == OpCode(read_u16(buf, 0))

\* Packet::find_last_null_byte: the index immediately following the last NUL.
find_last_null_byte(buf) ==
    LET nuls == {i \in 1..Len(buf) : buf[i] = 0}
    IN  IF nuls = {} THEN Err("Truncated")
        ELSE Ok(CHOOSE i \in nuls : \A j \in nuls : j <= i)

\* Packet::check_len.
check_len(buf) ==
    IF Len(buf) < 2 THEN Err("Truncated")
    ELSE LET op == opcode(buf)
             end == IF op \in {"Read", "Write", "Error"}
                    THEN find_last_null_byte(buf)
                    ELSE IF op \in {"Data", "Ack"} THEN Ok(4)
                    ELSE Err("Malformed")
         IN  IF ~end.ok THEN end
             ELSE IF Len(buf) < end.val THEN Err("Truncated")
             ELSE Ok(TRUE)

\* core::str::from_utf8(..).is_ok(): well-formed UTF-8 (Unicode table 3-7).
RECURSIVE from_utf8_ok(_)
from_utf8_ok(s) ==
    IF s = <<>> THEN TRUE
    ELSE LET b == s[1]
             n == Len(s)
             Cont(i) == i <= n /\ s[i] >= 128 /\ s[i] <= 191
         IN  IF b < 128 THEN from_utf8_ok(Tail(s))
             ELSE IF b >= 194 /\ b <= 223
                  THEN Cont(2) /\ from_utf8_ok(SubSeq(s, 3, n))
             ELSE IF b >= 224 /\ b <= 239
                  THEN /\ Cont(2) /\ Cont(3)
                       /\ (b = 224 => s[2] >= 160)
                       /\ (b = 237 => s[2] <= 159)
                       /\ from_utf8_ok(SubSeq(s, 4, n))
             ELSE IF b >= 240 /\ b <= 244
                  THEN /\ Cont(2) /\ Cont(3) /\ Cont(4)
                       /\ (b = 240 => s[2] >= 144)
                       /\ (b = 244 => s[2] <= 143)
                       /\ from_utf8_ok(SubSeq(s, 5, n))
             ELSE FALSE

Panic == [panic |-> TRUE]
NoPanic(v) == [panic |-> FALSE, val |-> v]

\* Packet::filename: the bytes from offset 2 to the first NUL at or after it.
\* position(..).unwrap() panics without such a NUL, from_utf8(..).unwrap()
\* on bytes that are not UTF-8.
filename(buf) ==
    LET nuls == {i \in 3..Len(buf) : buf[i] = 0}
    IN  IF nuls = {} THEN Panic
        ELSE LET p == CHOOSE i \in nuls : \A j \in nuls : i <= j
                 name == SubSeq(buf, 3, p - 1)
             IN  IF from_utf8_ok(name) THEN NoPanic(name) ELSE Panic

\* Packet::mode: the byte at offset 2 + filename.len() + 1; indexing past the
\* end of the buffer panics.
mode(buf) ==
    LET f == filename(buf)
    IN  IF f.panic THEN Panic
        ELSE LET start == 2 + Len(f.val) + 1
             IN  IF start >= Len(buf) THEN Panic
                 ELSE NoPanic(Mode(buf[start + 1]))

\* Packet::block_number.
block_number(buf) == read_u16(buf, 2)

\* Packet::data: the bytes from offset 4.
data(buf) == SubSeq(buf, 5, Len(buf))

\* Packet::error_code.
error_code(buf) == ErrorCode(read_u16(buf, 2))

\* Packet::error_msg: data[4 .. len - 1]; a range whose start exceeds its end
\* panics, and so does from_utf8(..).unwrap() on bytes that are not UTF-8.
error_msg(buf) ==
    IF 4 > Len(buf) - 1 THEN Panic
    ELSE LET msg == SubSeq(buf, 5, Len(buf) - 1)
         IN  IF from_utf8_ok(msg) THEN NoPanic(msg) ELSE Panic

ReadRequest(f, m) == [type |-> "ReadRequest", filename |-> f, mode |-> m]
WriteRequest(f, m) == [type |-> "WriteRequest", filename |-> f, mode |-> m]
Data(n, d) == [type |-> "Data", block_num |-> n, data |-> d]
Ack(n) == [type |-> "Ack", block_num |-> n]
Error(c, msg) == [type |-> "Error", code |-> c, msg |-> msg]

\* Repr::parse: Panic, or NoPanic(Ok(repr)), or NoPanic(Err("Malformed")).
parse(buf) ==
    LET op == opcode(buf)
    IN  CASE op \in {"Read", "Write"} ->
               LET f == filename(buf)
                   m == mode(buf)
               IN  IF f.panic \/ m.panic THEN Panic
                   ELSE NoPanic(Ok(IF op = "Read"
                                   THEN ReadRequest(f.val, m.val)
                                   ELSE WriteRequest(f.val, m.val)))
          [] op = "Data" -> NoPanic(Ok(Data(block_number(buf), data(buf))))
          [] op = "Ack" -> NoPanic(Ok(Ack(block_number(buf))))
          [] op = "Error" ->
               LET msg == error_msg(buf)
               IN  IF msg.panic THEN Panic
                   ELSE NoPanic(Ok(Error(error_code(buf), msg.val)))
          [] OTHER -> NoPanic(Err("Malformed"))


\* --------------------------------------- storage (trait Context, trait Handle)

\* The byte at 0-based offset `off` of a stored file: block k (from 1) of a
\* file is filled with k, so that a block's content names its place.
FileByte(off) == ((off \div BLOCK_SIZE) % 255) + 1

\* Block i of a file of length L as Handle::read delivers it.
Chunk(L, i) ==
    [j \in 1..Min(BLOCK_SIZE, L - BLOCK_SIZE * (i - 1)) |->
        FileByte(BLOCK_SIZE * (i - 1) + j - 1)]

\* Context::open(filename, write_mode) succeeding: a fresh handle.  A read
\* handle is positioned at the start of a file of `size` bytes.
NewHandle(id, write_mode, size) ==
    [id |-> id, write_mode |-> write_mode,
     size |-> IF write_mode THEN 0 ELSE size, pos |-> 0, written |-> <<>>]

\* Handle::read(buf), buf being 512 bytes long: on success the next
\* min(512, size - pos) bytes of the file are copied to the front of buf.
HandleRead(h, buf, ok) ==
    IF ~ok THEN [ok |-> FALSE, n |-> 0, buf |-> buf, handle |-> h]
    ELSE LET n == Min(Len(buf), h.size - h.pos)
         IN  [ok |-> TRUE, n |-> n,
              buf |-> [i \in 1..Len(buf) |->
                         IF i <= n THEN FileByte(h.pos + i - 1) ELSE buf[i]],
              handle |-> [h EXCEPT !.pos = @ + n]]

\* Handle::write(buf): on success buf is appended to what was written.
HandleWrite(h, buf, ok) ==
    IF ~ok THEN [ok |-> FALSE, handle |-> h]
    ELSE [ok |-> TRUE, handle |-> [h EXCEPT !.written = Append(@, buf)]]

\* ------------------------------------------------ the server (tftp/mod.rs)

(* One serve call works on a record m:                                     *)
(*   transfers  the ManagedSlice of Option<Transfer>                       *)
(*   managed    "Borrowed" or "Owned"                                      *)
(*   opened     how many handles Context::open has returned                *)
(*   closed     the handles passed to Context::close, in order             *)
(*   tx         the packets sent during this call, [ep, repr]              *)
(*   io         the Context and Handle calls made during this call         *)
(*   room       how many packets the tx buffer accepts during this call    *)
(*   checks     whether the build panics on integer overflow               *)

\* socket.send(len, ep) followed by repr.emit: Err(Exhausted) when the tx
\* buffer is full.
Send(m, ep, repr) ==
    IF Len(m.tx) < m.room
    THEN [ok |-> TRUE, m |-> [m EXCEPT !.tx = Append(@, [ep |-> ep, repr |-> repr])]]
    ELSE [ok |-> FALSE, m |-> m]

\* fn send_error.
send_error(m, ep, code, msg) == Send(m, ep, Error(code, msg))

\* Transfer::send_ack.
send_ack(x, m, block) == Send(m, x.ep, Ack(block))

\* A resend_data that sends the whole block buffer, whatever was read.
resend_data_whole(x, m) ==
    IF x.last_data # None
    THEN Send(m, x.ep, Data(x.block_num, x.last_data[1]))
    ELSE [ok |-> TRUE, m |-> m]

\* Transfer::resend_data: nothing is sent while last_data is None.
resend_data(x, m) ==
    IF x.last_data # None
    THEN Send(m, x.ep, Data(x.block_num, SubSeq(x.last_data[1], 1, x.last_len)))
    ELSE [ok |-> TRUE, m |-> m]

\* Transfer::send_data: [ok, x, m]; ok is FALSE when `?` returns an error.
\* A failed read sends the ERROR and returns Ok(false) like a successful one.
send_data(x, m, readOk) ==
    LET buf0 == IF x.last_data = None THEN Fill(BLOCK_SIZE, 0) ELSE x.last_data[1]
        rd == HandleRead(x.handle, buf0, readOk)
        m1 == [m EXCEPT !.io = Append(@, [op |-> "read", id |-> x.handle.id,
                                           len |-> Len(buf0), ok |-> rd.ok])]
        x1 == [x EXCEPT !.last_data = Some(rd.buf), !.handle = rd.handle,
                        !.last_len = IF rd.ok THEN rd.n ELSE @]
    IN  IF ~rd.ok
        THEN LET s == send_error(m1, x.ep, AccessViolation,
                                 "Error occurred while reading the file")
             IN  [ok |-> s.ok, x |-> x1, m |-> s.m]
        ELSE LET s == resend_data(x1, m1)
             IN  [ok |-> s.ok, x |-> x1, m |-> s.m]

\* Transfer::process_timeout: [ok, drop, x, m].
process_timeout(x, m, t) ==
    IF t >= x.timeout /\ x.retries < MAX_RETRIES
    THEN LET x1 == [x EXCEPT !.retries = @ + 1]
             s == resend_data(x1, m)
         IN  [ok |-> s.ok, drop |-> FALSE, x |-> x1, m |-> s.m]
    ELSE [ok |-> TRUE, drop |-> TRUE, x |-> x, m |-> m]

\* A close_transfer that takes the first transfer of the table.
close_transfer_first(m, idx) ==
    LET occ == {i \in 1..Len(m.transfers) : m.transfers[i] # None}
        k == IF occ = {} THEN idx ELSE CHOOSE i \in occ : \A j \in occ : i <= j
    IN  IF m.transfers[k] # None
        THEN [m EXCEPT !.transfers[k] = None,
                       !.closed = Append(@, m.transfers[k][1].handle),
                       !.io = Append(@, [op |-> "close", id |-> m.transfers[k][1].handle.id])]
        ELSE m

\* Server::close_transfer on slot idx: take the transfer, close its handle.
close_transfer(m, idx) ==
    IF m.transfers[idx] # None
    THEN [m EXCEPT !.transfers[idx] = None,
                   !.closed = Append(@, m.transfers[idx][1].handle),
                   !.io = Append(@, [op |-> "close", id |-> m.transfers[idx][1].handle.id])]
    ELSE m

\* A lookup that finds no transfer.
xfer_idx_blind(transfers, ep) == None

\* transfers.iter_mut().position(|xfer| xfer.ep == ep): Option<index>.
xfer_idx(transfers, ep) ==
    LET hit == {i \in 1..Len(transfers) :
                   transfers[i] # None /\ transfers[i][1].ep = ep}
    IN  IF hit = {} THEN None
        ELSE Some(CHOOSE i \in hit : \A j \in hit : i <= j)

\* A search that falls back on the first slot when none is free.
free_idx_reuse(transfers) ==
    LET free == {i \in 1..Len(transfers) : transfers[i] = None}
    IN  IF free # {} THEN Some(CHOOSE i \in free : \A j \in free : i <= j)
        ELSE IF Len(transfers) > 0 THEN Some(1) ELSE None

\* transfers.iter().position(|t| t.is_none()): Option<index>.
free_idx(transfers) ==
    LET free == {i \in 1..Len(transfers) : transfers[i] = None}
    IN  IF free = {} THEN None
        ELSE Some(CHOOSE i \in free : \A j \in free : i <= j)

\* What serve hands back: the record m and "Ok", "Err" or "Panic".
Ret(m, r) == [m |-> m, ret |-> r]

\* `return send_error(..)`, and `send(..)?; return Ok(())`.
ReturnSend(s) == Ret(s.m, IF s.ok THEN "Ok" ELSE "Err")

\* A `+ 1` that stays at the largest u16.
u16_add1_saturating(n, checks) ==
    IF n < U16_MAX THEN NoPanic(n + 1) ELSE NoPanic(U16_MAX)

\* u16 `+ 1` and `- 1`: out of range, a build with overflow checks panics and
\* one without wraps.
u16_add1(n, checks) ==
    IF n < U16_MAX THEN NoPanic(n + 1) ELSE IF checks THEN Panic ELSE NoPanic(0)

u16_sub1(n, checks) ==
    IF n > 0 THEN NoPanic(n - 1) ELSE IF checks THEN Panic ELSE NoPanic(U16_MAX)


\* A request arm that serves a request whatever its mode.
serve_request_any_mode(m, repr, ep, is_write, now_, env) ==
    \* Find the first free transfer available, or allocate one if possible
    LET free == free_idx(m.transfers)
        grow == free = None /\ m.managed = "Owned"
        m1 == IF grow THEN [m EXCEPT !.transfers = Append(@, None)] ELSE m
        opt_idx == IF grow THEN Some(Len(m1.transfers)) ELSE free
    IN  IF opt_idx = None
        THEN ReturnSend(send_error(m1, ep, AccessViolation, "No more available connections"))
        ELSE
        LET idx == opt_idx[1]
            m2 == [m1 EXCEPT !.io = Append(@, [op |-> "open", write_mode |-> is_write,
                                                ok |-> env.openOk])]
        IN  IF ~env.openOk
            THEN ReturnSend(send_error(m2, ep, FileNotFound, "Unable to open requested file"))
            ELSE
            LET m3 == [m2 EXCEPT !.opened = @ + 1]
                xfer == [handle |-> NewHandle(m3.opened, is_write, env.size),
                         ep |-> ep,
                         is_write |-> is_write,
                         block_num |-> 1,
                         last_data |-> None,
                         last_len |-> 0,
                         retries |-> 0,
                         timeout |-> now_ + POLL_MILLIS]
            IN  IF is_write
                THEN LET s == send_ack(xfer, m3, 0)
                     IN  IF ~s.ok THEN Ret(s.m, "Err")
                         ELSE Ret([s.m EXCEPT !.transfers[idx] = Some(xfer)], "Ok")
                ELSE LET s == send_data(xfer, m3, env.readOk)
                     IN  IF ~s.ok THEN Ret(s.m, "Err")
                         ELSE Ret([s.m EXCEPT !.transfers[idx] = Some(s.x)], "Ok")

\* serve, arm (ReadRequest | WriteRequest, None).  env holds what the
\* collaborators answer during the call: openOk, size, readOk, writeOk.
serve_request(m, repr, ep, is_write, now_, env) ==
    IF repr.mode # "Octet"
    THEN ReturnSend(send_error(m, ep, IllegalOperation, "Only octet mode is supported"))
    ELSE
    \* Find the first free transfer available, or allocate one if possible
    LET free == free_idx(m.transfers)
        grow == free = None /\ m.managed = "Owned"
        m1 == IF grow THEN [m EXCEPT !.transfers = Append(@, None)] ELSE m
        opt_idx == IF grow THEN Some(Len(m1.transfers)) ELSE free
    IN  IF opt_idx = None
        THEN ReturnSend(send_error(m1, ep, AccessViolation, "No more available connections"))
        ELSE
        LET idx == opt_idx[1]
            m2 == [m1 EXCEPT !.io = Append(@, [op |-> "open", write_mode |-> is_write,
                                                ok |-> env.openOk])]
        IN  IF ~env.openOk
            THEN ReturnSend(send_error(m2, ep, FileNotFound, "Unable to open requested file"))
            ELSE
            LET m3 == [m2 EXCEPT !.opened = @ + 1]
                xfer == [handle |-> NewHandle(m3.opened, is_write, env.size),
                         ep |-> ep,
                         is_write |-> is_write,
                         block_num |-> 1,
                         last_data |-> None,
                         last_len |-> 0,
                         retries |-> 0,
                         timeout |-> now_ + POLL_MILLIS]
            IN  IF is_write
                THEN LET s == send_ack(xfer, m3, 0)
                     IN  IF ~s.ok THEN Ret(s.m, "Err")
                         ELSE Ret([s.m EXCEPT !.transfers[idx] = Some(xfer)], "Ok")
                ELSE LET s == send_data(xfer, m3, env.readOk)
                     IN  IF ~s.ok THEN Ret(s.m, "Err")
                         ELSE Ret([s.m EXCEPT !.transfers[idx] = Some(s.x)], "Ok")

\* A Data arm that accepts a block whatever its number.
serve_data_any(m, repr, idx, ep, now_, env) ==
    LET x1 == [m.transfers[idx][1] EXCEPT !.timeout = now_ + RETRY_TIMEOUT,
                                          !.retries = 0]
        m1 == [m EXCEPT !.transfers[idx] = Some(x1)]
    IN  IF ~x1.is_write
        THEN ReturnSend(send_error(m1, ep, AccessViolation, "Not a write connection"))
        ELSE
        LET next == u16_add1(x1.block_num, m.checks)
        IN  IF next.panic THEN Ret(m1, "Panic")
            ELSE
            LET w == HandleWrite(x1.handle, repr.data, env.writeOk)
                x2 == [x1 EXCEPT !.block_num = next.val, !.handle = w.handle]
                m2 == [m1 EXCEPT !.transfers[idx] = Some(x2),
                                 !.io = Append(@, [op |-> "write", id |-> x1.handle.id,
                                                   len |-> Len(repr.data), ok |-> w.ok])]
            IN  IF w.ok
                THEN LET s == send_ack(x2, m2, repr.block_num)
                     IN  IF ~s.ok THEN Ret(s.m, "Err")
                         ELSE IF Len(repr.data) < BLOCK_SIZE
                         THEN Ret(close_transfer(s.m, idx), "Ok")
                         ELSE Ret(s.m, "Ok")
                ELSE LET s == send_error(m2, ep, AccessViolation, "Error writing file")
                     IN  IF ~s.ok THEN Ret(s.m, "Err")
                         ELSE Ret(close_transfer(s.m, idx), "Ok")

\* A Data arm that keeps the transfer when Handle::write fails.
serve_data_keep(m, repr, idx, ep, now_, env) ==
    LET x1 == [m.transfers[idx][1] EXCEPT !.timeout = now_ + RETRY_TIMEOUT,
                                          !.retries = 0]
        m1 == [m EXCEPT !.transfers[idx] = Some(x1)]
    IN  IF ~x1.is_write
        THEN ReturnSend(send_error(m1, ep, AccessViolation, "Not a write connection"))
        ELSE IF repr.block_num # x1.block_num
        THEN LET prev == u16_sub1(x1.block_num, m.checks)
             IN  IF prev.panic THEN Ret(m1, "Panic")
                 ELSE ReturnSend(send_ack(x1, m1, prev.val))
        ELSE
        LET next == u16_add1(x1.block_num, m.checks)
        IN  IF next.panic THEN Ret(m1, "Panic")
            ELSE
            LET w == HandleWrite(x1.handle, repr.data, env.writeOk)
                x2 == [x1 EXCEPT !.block_num = next.val, !.handle = w.handle]
                m2 == [m1 EXCEPT !.transfers[idx] = Some(x2),
                                 !.io = Append(@, [op |-> "write", id |-> x1.handle.id,
                                                   len |-> Len(repr.data), ok |-> w.ok])]
            IN  IF w.ok
                THEN LET s == send_ack(x2, m2, repr.block_num)
                     IN  IF ~s.ok THEN Ret(s.m, "Err")
                         ELSE IF Len(repr.data) < BLOCK_SIZE
                         THEN Ret(close_transfer(s.m, idx), "Ok")
                         ELSE Ret(s.m, "Ok")
                ELSE ReturnSend(send_error(m2, ep, AccessViolation, "Error writing file"))

\* serve, arm (Data, Some(idx)).
serve_data(m, repr, idx, ep, now_, env) ==
    LET x1 == [m.transfers[idx][1] EXCEPT !.timeout = now_ + RETRY_TIMEOUT,
                                          !.retries = 0]
        m1 == [m EXCEPT !.transfers[idx] = Some(x1)]
    IN  IF ~x1.is_write
        THEN ReturnSend(send_error(m1, ep, AccessViolation, "Not a write connection"))
        ELSE IF repr.block_num # x1.block_num
        THEN LET prev == u16_sub1(x1.block_num, m.checks)
             IN  IF prev.panic THEN Ret(m1, "Panic")
                 ELSE ReturnSend(send_ack(x1, m1, prev.val))
        ELSE
        LET next == u16_add1(x1.block_num, m.checks)
        IN  IF next.panic THEN Ret(m1, "Panic")
            ELSE
            LET w == HandleWrite(x1.handle, repr.data, env.writeOk)
                x2 == [x1 EXCEPT !.block_num = next.val, !.handle = w.handle]
                m2 == [m1 EXCEPT !.transfers[idx] = Some(x2),
                                 !.io = Append(@, [op |-> "write", id |-> x1.handle.id,
                                                   len |-> Len(repr.data), ok |-> w.ok])]
            IN  IF w.ok
                THEN LET s == send_ack(x2, m2, repr.block_num)
                     IN  IF ~s.ok THEN Ret(s.m, "Err")
                         ELSE IF Len(repr.data) < BLOCK_SIZE
                         THEN Ret(close_transfer(s.m, idx), "Ok")
                         ELSE Ret(s.m, "Ok")
                ELSE LET s == send_error(m2, ep, AccessViolation, "Error writing file")
                     IN  IF ~s.ok THEN Ret(s.m, "Err")
                         ELSE Ret(close_transfer(s.m, idx), "Ok")

\* An Ack arm that resets the retransmission counter after it has made sure
\* of the transfer's direction.
serve_ack_reset_late(m, repr, idx, ep, now_, env) ==
    LET x0 == m.transfers[idx][1]
        x1 == [x0 EXCEPT !.timeout = now_ + RETRY_TIMEOUT, !.retries = 0]
        m1 == [m EXCEPT !.transfers[idx] = Some(x1)]
    IN  IF x0.is_write
        THEN ReturnSend(send_error(m, ep, AccessViolation, "Not a read connection"))
        ELSE IF repr.block_num # x1.block_num
        THEN ReturnSend(resend_data(x1, m1))
        ELSE
        LET next == u16_add1(x1.block_num, m.checks)
        IN  IF next.panic THEN Ret(m1, "Panic")
            ELSE
            LET x2 == [x1 EXCEPT !.block_num = next.val]
                m2 == [m1 EXCEPT !.transfers[idx] = Some(x2)]
            IN  IF x2.last_len = BLOCK_SIZE
                THEN LET s == send_data(x2, m2, env.readOk)
                     IN  Ret([s.m EXCEPT !.transfers[idx] = Some(s.x)],
                             IF s.ok THEN "Ok" ELSE "Err")
                ELSE Ret(close_transfer(m2, idx), "Ok")

\* An Ack arm that advances on an ACK whatever its number.
serve_ack_any(m, repr, idx, ep, now_, env) ==
    LET x1 == [m.transfers[idx][1] EXCEPT !.timeout = now_ + RETRY_TIMEOUT,
                                          !.retries = 0]
        m1 == [m EXCEPT !.transfers[idx] = Some(x1)]
    IN  IF x1.is_write
        THEN ReturnSend(send_error(m1, ep, AccessViolation, "Not a read connection"))
        ELSE
        LET next == u16_add1(x1.block_num, m.checks)
        IN  IF next.panic THEN Ret(m1, "Panic")
            ELSE
            LET x2 == [x1 EXCEPT !.block_num = next.val]
                m2 == [m1 EXCEPT !.transfers[idx] = Some(x2)]
            IN  IF x2.last_len = BLOCK_SIZE
                THEN LET s == send_data(x2, m2, env.readOk)
                     IN  Ret([s.m EXCEPT !.transfers[idx] = Some(s.x)],
                             IF s.ok THEN "Ok" ELSE "Err")
                ELSE Ret(close_transfer(m2, idx), "Ok")

\* serve, arm (Ack, Some(idx)).
serve_ack(m, repr, idx, ep, now_, env) ==
    LET x1 == [m.transfers[idx][1] EXCEPT !.timeout = now_ + RETRY_TIMEOUT,
                                          !.retries = 0]
        m1 == [m EXCEPT !.transfers[idx] = Some(x1)]
    IN  IF x1.is_write
        THEN ReturnSend(send_error(m1, ep, AccessViolation, "Not a read connection"))
        ELSE IF repr.block_num # x1.block_num
        THEN ReturnSend(resend_data(x1, m1))
        ELSE
        LET next == u16_add1(x1.block_num, m.checks)
        IN  IF next.panic THEN Ret(m1, "Panic")
            ELSE
            LET x2 == [x1 EXCEPT !.block_num = next.val]
                m2 == [m1 EXCEPT !.transfers[idx] = Some(x2)]
            IN  IF x2.last_len = BLOCK_SIZE
                THEN LET s == send_data(x2, m2, env.readOk)
                     IN  Ret([s.m EXCEPT !.transfers[idx] = Some(s.x)],
                             IF s.ok THEN "Ok" ELSE "Err")
                ELSE Ret(close_transfer(m2, idx), "Ok")

\* A duplicate-request arm that also drops the transfer in place.
serve_duplicate_drop(m, ep) ==
    ReturnSend(send_error(close_transfer(m, xfer_idx(m.transfers, ep)[1]), ep,
                          AccessViolation, "Multiple connections not supported"))

\* serve, arm (ReadRequest | WriteRequest, Some(_)).
serve_duplicate(m, ep) ==
    ReturnSend(send_error(m, ep, AccessViolation, "Multiple connections not supported"))

\* A serve that takes an ERROR packet as the end of the sender's transfer.
serve_packet_abort(m, buf, ep, now_, env) ==
    IF ~check_len(buf).ok
    THEN ReturnSend(send_error(m, ep, AccessViolation, "Packet truncated"))
    ELSE
    LET parsed == parse(buf)
    IN  IF parsed.panic THEN Ret(m, "Panic")
        ELSE IF ~parsed.val.ok
        THEN ReturnSend(send_error(m, ep, AccessViolation, "Malformed packet"))
        ELSE
        LET repr == parsed.val.val
            idx == xfer_idx(m.transfers, ep)
            is_write == opcode(buf) = "Write"
        IN  CASE repr.type \in {"ReadRequest", "WriteRequest"} /\ idx # None ->
                   serve_duplicate(m, ep)
              [] repr.type \in {"ReadRequest", "WriteRequest"} /\ idx = None ->
                   serve_request(m, repr, ep, is_write, now_, env)
              [] repr.type \in {"Data", "Ack"} /\ idx = None ->
                   ReturnSend(send_error(m, ep, AccessViolation,
                                         "Data packet without active transfer"))
              [] repr.type = "Data" /\ idx # None ->
                   serve_data(m, repr, idx[1], ep, now_, env)
              [] repr.type = "Ack" /\ idx # None ->
                   serve_ack(m, repr, idx[1], ep, now_, env)
              [] repr.type = "Error" /\ idx # None ->
                   Ret(close_transfer(m, idx[1]), "Ok")
              [] repr.type = "Error" /\ idx = None ->
                   ReturnSend(send_error(m, ep, IllegalOperation, "Unknown operation"))

\* serve, arm Ok((data, ep)) of socket.recv().
serve_packet(m, buf, ep, now_, env) ==
    IF ~check_len(buf).ok
    THEN ReturnSend(send_error(m, ep, AccessViolation, "Packet truncated"))
    ELSE
    LET parsed == parse(buf)
    IN  IF parsed.panic THEN Ret(m, "Panic")
        ELSE IF ~parsed.val.ok
        THEN ReturnSend(send_error(m, ep, AccessViolation, "Malformed packet"))
        ELSE
        LET repr == parsed.val.val
            idx == xfer_idx(m.transfers, ep)
            is_write == opcode(buf) = "Write"
        IN  CASE repr.type \in {"ReadRequest", "WriteRequest"} /\ idx # None ->
                   serve_duplicate(m, ep)
              [] repr.type \in {"ReadRequest", "WriteRequest"} /\ idx = None ->
                   serve_request(m, repr, ep, is_write, now_, env)
              [] repr.type \in {"Data", "Ack"} /\ idx = None ->
                   ReturnSend(send_error(m, ep, AccessViolation,
                                         "Data packet without active transfer"))
              [] repr.type = "Data" /\ idx # None ->
                   serve_data(m, repr, idx[1], ep, now_, env)
              [] repr.type = "Ack" /\ idx # None ->
                   serve_ack(m, repr, idx[1], ep, now_, env)
              [] repr.type = "Error" ->
                   ReturnSend(send_error(m, ep, IllegalOperation, "Unknown operation"))

\* serve, arm Err(Error::Exhausted): the loop over the slots from slot i on;
\* `?` leaves the loop at the first send that fails.
RECURSIVE timeout_loop(_, _, _)
timeout_loop(m, i, now_) ==
    IF i > Len(m.transfers) THEN Ret(m, "Ok")
    ELSE IF m.transfers[i] = None THEN timeout_loop(m, i + 1, now_)
    ELSE LET r == process_timeout(m.transfers[i][1], m, now_)
             m1 == [r.m EXCEPT !.transfers[i] = Some(r.x)]
         IN  IF ~r.ok THEN Ret(m1, "Err")
             ELSE timeout_loop(IF r.drop THEN close_transfer(m1, i) ELSE m1,
                               i + 1, now_)

\* A serve_exhausted that sends the last DATA packet of the first read
\* transfer again once every RETRY_TIMEOUT, and counts the retries without
\* a limit.
serve_exhausted_unbounded(m, can_send, now_, next_poll_) ==
    LET occ == {i \in 1..Len(m.transfers) :
                  /\ m.transfers[i] # None
                  /\ ~m.transfers[i][1].is_write
                  /\ m.transfers[i][1].last_data # None
                  /\ now_ >= m.transfers[i][1].timeout
                              + m.transfers[i][1].retries * RETRY_TIMEOUT}
    IN  IF can_send /\ occ # {}
        THEN LET i == CHOOSE k \in occ : \A j \in occ : k <= j
                 x1 == [m.transfers[i][1] EXCEPT !.retries = @ + 1]
                 s == resend_data(x1, m)
             IN  Ret([s.m EXCEPT !.transfers[i] = Some(x1)],
                     IF s.ok THEN "Ok" ELSE "Err")
        ELSE Ret(m, "Ok")

\* serve, arm Err(Error::Exhausted); next_poll is the value serve has just
\* stored, now + 50 ms.
serve_exhausted(m, can_send, now_, next_poll_) ==
    IF can_send /\ now_ >= next_poll_
    THEN timeout_loop(m, 1, now_)
    ELSE Ret(m, "Ok")


\* ------------------------------------------------- emitting (wire/tftp.rs)

\* Mode::as_str, as bytes.
as_str(m) ==
    CASE m = "NetAscii" -> <<110, 101, 116, 97, 115, 99, 105, 105>>
      [] m = "Octet" -> <<111, 99, 116, 101, 116>>
      [] m = "Mail" -> <<109, 97, 105, 108>>
      [] OTHER -> <<>>

\* Repr::buffer_len.
buffer_len(r) ==
    CASE r.type \in {"ReadRequest", "WriteRequest"} ->
               2 + Len(r.filename) + 1 + Len(as_str(r.mode)) + 1
      [] r.type = "Data" -> 2 + 2 + Len(r.data)
      [] r.type = "Error" -> 2 + 2 + Len(r.msg) + 1
      [] r.type = "Ack" -> 4

\* NetworkEndian::write_u16 at 0-based offset `at`.
write_u16(buf, at, v) ==
    [buf EXCEPT ![at + 1] = v \div 256, ![at + 2] = v % 256]

\* buf[start .. start + src.len()].copy_from_slice(src), start 0-based.
copy_from_slice(buf, start, src) ==
    [i \in 1..Len(buf) |->
        IF i > start /\ i <= start + Len(src) THEN src[i - start] ELSE buf[i]]

\* A set_filename_and_mode that leaves the last byte of the buffer as it
\* finds it.
set_filename_and_mode_open(buf, fname, m) ==
    LET mode_start == 2 + Len(fname) + 1
        b1 == copy_from_slice(buf, 2, fname)
        b2 == copy_from_slice(b1, mode_start, as_str(m))
    IN  [b2 EXCEPT ![mode_start] = 0]

\* Packet::set_filename_and_mode.
set_filename_and_mode(buf, fname, m) ==
    LET mode_start == 2 + Len(fname) + 1
        b1 == copy_from_slice(buf, 2, fname)
        b2 == copy_from_slice(b1, mode_start, as_str(m))
        b3 == [b2 EXCEPT ![mode_start] = 0]
    IN  [b3 EXCEPT ![Len(buf)] = 0]

\* Packet::set_error_msg.
set_error_msg(buf, msg) ==
    [copy_from_slice(buf, 4, msg) EXCEPT ![Len(buf)] = 0]

\* impl From<ErrorCode> for u16.
error_code_u16(c) ==
    CASE c.code = "Undefined" -> 0
      [] c.code = "FileNotFound" -> 1
      [] c.code = "AccessViolation" -> 2
      [] c.code = "DiskFull" -> 3
      [] c.code = "IllegalOperation" -> 4
      [] c.code = "UnknownID" -> 5
      [] c.code = "FileExists" -> 6
      [] c.code = "NoSuchUser" -> 7
      [] OTHER -> c.n

\* Repr::emit into a buffer of buffer_len(r) bytes.
emit(r, buf) ==
    CASE r.type = "ReadRequest" ->
               set_filename_and_mode(write_u16(buf, 0, 1), r.filename, r.mode)
      [] r.type = "WriteRequest" ->
               set_filename_and_mode(write_u16(buf, 0, 2), r.filename, r.mode)
      [] r.type = "Data" ->
               copy_from_slice(write_u16(write_u16(buf, 0, 3), 2, r.block_num), 4, r.data)
      [] r.type = "Ack" -> write_u16(write_u16(buf, 0, 4), 2, r.block_num)
      [] r.type = "Error" ->
               set_error_msg(write_u16(write_u16(buf, 0, 5), 2, error_code_u16(r.code)),
                             r.msg)

\* The datagram a peer builds from r.
Datagram(r) == emit(r, Fill(buffer_len(r), 0))

\* ------------------------------------------------------------- environment

\* Client endpoints: one more than a borrowed table has slots.
Endpoints == 1..(NumSlots + 1)

\* Lengths of the files a Context serves: 3 blocks, 2 blocks (the last one
\* empty) and 1 block.
FileSizes == {1100, 512, 76}

\* The filename "f".
FName == <<102>>

\* Block n as a client sends it: len bytes, each n.
ClientData(n, len) == Data(n, Fill(len, n))

RRQ == Datagram(ReadRequest(FName, "Octet"))
WRQ == Datagram(WriteRequest(FName, "Octet"))

\* What a client reading a file sends: the request and ACKs.
ReadDatagrams == {RRQ} \cup {Datagram(Ack(n)) : n \in 1..3}

\* What a client writing a file sends: the request and DATA blocks, full
\* and short.
WriteDatagrams ==
    {WRQ} \cup {Datagram(ClientData(n, len)) : n \in 1..2, len \in {BLOCK_SIZE, 300}}

\* Datagrams that no peer following the protocol sends: empty, an unknown
\* opcode, a request cut short after its opcode, an ERROR cut short.
BadDatagrams == {<<>>, <<0, 9>>, <<0, 1>>, <<0, 5, 0>>}

\* The datagrams of Spec: both requests, a request in netascii mode, an
\* ACK, a short DATA block, an ERROR, and the bad ones.
Datagrams ==
    {RRQ, WRQ, Datagram(ReadRequest(FName, "NetAscii")), Datagram(Ack(1)),
     Datagram(ClientData(1, 300)), Datagram(Error(ErrorCode(1), <<69>>))}
    \cup BadDatagrams

\* What the collaborators answer during one serve call that received buf:
\* open, read and write succeed or not (oks), a file opened for reading has
\* one of the lengths in sizes.  An answer the call does not ask for is fixed.
Envs(buf, sizes, oks) ==
    LET op == IF Len(buf) >= 2 THEN opcode(buf) ELSE "Unknown"
        env(o, z, r, w) == [openOk |-> o, size |-> z, readOk |-> r, writeOk |-> w]
    IN  CASE op = "Read" ->
               {env(TRUE, z, r, TRUE) : z \in sizes, r \in oks}
               \cup {env(o, 0, TRUE, TRUE) : o \in oks \ {TRUE}}
          [] op = "Write" -> {env(o, 0, TRUE, TRUE) : o \in oks}
          [] op = "Ack" -> {env(TRUE, 0, r, TRUE) : r \in oks}
          [] op = "Data" -> {env(TRUE, 0, TRUE, w) : w \in oks}
          [] OTHER -> {env(TRUE, 0, TRUE, TRUE)}

\* ------------------------------------------- the SNTP codec (wire/sntp.rs)

\* ProtocolMode, from the three low bits of byte 0.
ProtocolMode(n) ==
    CASE n = 0 -> "Reserved" [] n = 1 -> "SymActive" [] n = 2 -> "SymPassive"
      [] n = 3 -> "Client" [] n = 4 -> "Server" [] n = 5 -> "Broadcast"
      [] n = 6 -> "Control" [] n = 7 -> "Private" [] OTHER -> "Unknown"

\* Stratum, from byte 1.
Stratum(n) ==
    CASE n = 0 -> "KissOfDeath" [] n = 1 -> "Primary"
      [] n >= 2 /\ n <= 15 -> "Secondary" [] n = 16 -> "Unsynchronized"
      [] OTHER -> "Reserved"

\* A u32 is the pair of its 16-bit halves, <<high, low>>: its value is
\* high * 65536 + low.
u32(n) == <<n \div (U16_MAX + 1), n % (U16_MAX + 1)>>

\* NetworkEndian::read_u32 at 0-based offset `at`.
read_u32(buf, at) ==
    <<buf[at + 1] * 256 + buf[at + 2], buf[at + 3] * 256 + buf[at + 4]>>

\* Packet::check_len: Truncated below 48 bytes.
sntp_check_len(buf) == IF Len(buf) < SNTP_LEN THEN Err("Truncated") ELSE Ok(TRUE)

\* Repr::parse of a length-checked packet: the fields Client::receive reads.
sntp_parse(buf) ==
    Ok([protocol_mode |-> ProtocolMode(buf[1] % 8),
        version |-> (buf[1] \div 8) % 8,
        stratum |-> Stratum(buf[2]),
        xmit_timestamp |-> [sec |-> read_u32(buf, 40), frac |-> read_u32(buf, 44)]])

\* A 48-byte packet with byte 0 = b0, stratum byte st and transmit seconds
\* sec (a u32), the other fields zero.
SntpDatagram(b0, st, sec) ==
    [i \in 1..SNTP_LEN |->
        CASE i = 1 -> b0
          [] i = 2 -> st
          [] i = 41 -> sec[1] \div 256
          [] i = 42 -> sec[1] % 256
          [] i = 43 -> sec[2] \div 256
          [] i = 44 -> sec[2] % 256
          [] OTHER -> 0]

\* ------------------------------------------- the SNTP client (sntp/mod.rs)

\* smoltcp's Instant - Instant: the Duration between the two, an unsigned
\* number of milliseconds, whichever comes first.
instant_sub(a, b) == IF a >= b THEN a - b ELSE b - a

\* u32::wrapping_add.
wrapping_add(a, b) ==
    LET low == a[2] + b[2]
        high == a[1] + b[1] + (low \div (U16_MAX + 1))
    IN  <<high % (U16_MAX + 1), low % (U16_MAX + 1)>>

\* A receive that adds without wrapping: the high half of the sum may leave
\* the range of a u16.
receive_plain_add(buf) ==
    IF ~sntp_check_len(buf).ok THEN None
    ELSE LET parsed == sntp_parse(buf)
         IN  IF ~parsed.ok THEN None
             ELSE IF parsed.val.protocol_mode # "Server" THEN None
             ELSE IF parsed.val.stratum = "KissOfDeath" THEN None
             ELSE LET sec == parsed.val.xmit_timestamp.sec
                      low == sec[2] + u32(DIFF_SEC_1970_2036)[2]
                  IN  Some(<<sec[1] + u32(DIFF_SEC_1970_2036)[1]
                               + (low \div (U16_MAX + 1)),
                             low % (U16_MAX + 1)>>)

\* A receive that accepts a kiss-o'-death.
receive_any_stratum(buf) ==
    IF ~sntp_check_len(buf).ok THEN None
    ELSE LET parsed == sntp_parse(buf)
         IN  IF ~parsed.ok THEN None
             ELSE IF parsed.val.protocol_mode # "Server" THEN None
             ELSE Some(wrapping_add(parsed.val.xmit_timestamp.sec,
                                    u32(DIFF_SEC_1970_2036)))

\* Client::receive: Option<u32>.
receive(buf) ==
    IF ~sntp_check_len(buf).ok THEN None
    ELSE LET parsed == sntp_parse(buf)
         IN  IF ~parsed.ok THEN None
             ELSE IF parsed.val.protocol_mode # "Server" THEN None
             ELSE IF parsed.val.stratum = "KissOfDeath" THEN None
             ELSE Some(wrapping_add(parsed.val.xmit_timestamp.sec,
                                    u32(DIFF_SEC_1970_2036)))

\* The Repr that Client::request emits.
RequestRepr ==
    [leap_indicator |-> "NoWarning", version |-> 4, protocol_mode |-> "Client",
     stratum |-> "KissOfDeath", poll_interval |-> 0, precision |-> 0,
     root_delay |-> 0, root_dispersion |-> 0, ref_identifier |-> <<0, 0, 0, 0>>,
     ref_timestamp |-> [sec |-> 0, frac |-> 0],
     orig_timestamp |-> [sec |-> 0, frac |-> 0],
     recv_timestamp |-> [sec |-> 0, frac |-> 0],
     xmit_timestamp |-> [sec |-> 0, frac |-> 0]]

\* Client::request: [ok, tx]; socket.send fails when the tx buffer has no
\* room.
request(room) ==
    IF room > 0
    THEN [ok |-> TRUE, tx |-> <<[port |-> SNTP_PORT, repr |-> RequestRepr]>>]
    ELSE [ok |-> FALSE, tx |-> <<>>]

\* A poll that sends a request whenever the socket can send.
poll_any_time(c, rx, now_, can_send, room) ==
    IF rx.kind = "error" THEN [c |-> c, out |-> Err("recv"), tx |-> <<>>]
    ELSE
    LET timestamp == IF rx.kind = "packet" THEN receive(rx.buf) ELSE None
    IN  IF timestamp # None
        THEN [c |-> [c EXCEPT !.next_request = now_ + MAX_REQUEST_INTERVAL],
              out |-> Ok(timestamp), tx |-> <<>>]
        ELSE IF can_send
        THEN LET s == request(room)
             IN  IF ~s.ok THEN [c |-> c, out |-> Err("send"), tx |-> <<>>]
                 ELSE [c |-> [next_request |-> now_ + c.curr_interval,
                              curr_interval |->
                                 Min(MAX_REQUEST_INTERVAL, c.curr_interval * 2)],
                       out |-> Ok(None), tx |-> s.tx]
        ELSE [c |-> c, out |-> Ok(None), tx |-> <<>>]

\* A poll that goes on after the socket has refused the request.
poll_send_unchecked(c, rx, now_, can_send, room) ==
    IF rx.kind = "error" THEN [c |-> c, out |-> Err("recv"), tx |-> <<>>]
    ELSE
    LET timestamp == IF rx.kind = "packet" THEN receive(rx.buf) ELSE None
    IN  IF timestamp # None
        THEN [c |-> [c EXCEPT !.next_request = now_ + MAX_REQUEST_INTERVAL],
              out |-> Ok(timestamp), tx |-> <<>>]
        ELSE IF can_send /\ now_ >= c.next_request
        THEN LET s == request(room)
             IN  [c |-> [next_request |-> now_ + c.curr_interval,
                         curr_interval |->
                            Min(MAX_REQUEST_INTERVAL, c.curr_interval * 2)],
                  out |-> Ok(None), tx |-> s.tx]
        ELSE [c |-> c, out |-> Ok(None), tx |-> <<>>]

\* A poll that doubles the interval before it schedules the next request.
poll_double_first(c, rx, now_, can_send, room) ==
    IF rx.kind = "error" THEN [c |-> c, out |-> Err("recv"), tx |-> <<>>]
    ELSE
    LET timestamp == IF rx.kind = "packet" THEN receive(rx.buf) ELSE None
    IN  IF timestamp # None
        THEN [c |-> [c EXCEPT !.next_request = now_ + MAX_REQUEST_INTERVAL],
              out |-> Ok(timestamp), tx |-> <<>>]
        ELSE IF can_send /\ now_ >= c.next_request
        THEN LET s == request(room)
                 i == Min(MAX_REQUEST_INTERVAL, c.curr_interval * 2)
             IN  IF ~s.ok THEN [c |-> c, out |-> Err("send"), tx |-> <<>>]
                 ELSE [c |-> [next_request |-> now_ + i, curr_interval |-> i],
                       out |-> Ok(None), tx |-> s.tx]
        ELSE [c |-> c, out |-> Ok(None), tx |-> <<>>]

\* A poll that doubles the interval without the ceiling.
poll_no_ceiling(c, rx, now_, can_send, room) ==
    IF rx.kind = "error" THEN [c |-> c, out |-> Err("recv"), tx |-> <<>>]
    ELSE
    LET timestamp == IF rx.kind = "packet" THEN receive(rx.buf) ELSE None
    IN  IF timestamp # None
        THEN [c |-> [c EXCEPT !.next_request = now_ + MAX_REQUEST_INTERVAL],
              out |-> Ok(timestamp), tx |-> <<>>]
        ELSE IF can_send /\ now_ >= c.next_request
        THEN LET s == request(room)
             IN  IF ~s.ok THEN [c |-> c, out |-> Err("send"), tx |-> <<>>]
                 ELSE [c |-> [next_request |-> now_ + c.curr_interval,
                              curr_interval |-> c.curr_interval * 2],
                       out |-> Ok(None), tx |-> s.tx]
        ELSE [c |-> c, out |-> Ok(None), tx |-> <<>>]

\* Client::poll on the client c = [next_request, curr_interval], rx being
\* what socket.recv() returns: [c, out, tx], out the net::Result<Option<u32>>
\* and tx the packets sent.
poll(c, rx, now_, can_send, room) ==
    IF rx.kind = "error" THEN [c |-> c, out |-> Err("recv"), tx |-> <<>>]
    ELSE
    LET timestamp == IF rx.kind = "packet" THEN receive(rx.buf) ELSE None
    IN  IF timestamp # None
        THEN [c |-> [c EXCEPT !.next_request = now_ + MAX_REQUEST_INTERVAL],
              out |-> Ok(timestamp), tx |-> <<>>]
        ELSE IF can_send /\ now_ >= c.next_request
        THEN LET s == request(room)
             IN  IF ~s.ok THEN [c |-> c, out |-> Err("send"), tx |-> <<>>]
                 ELSE [c |-> [next_request |-> now_ + c.curr_interval,
                              curr_interval |->
                                 Min(MAX_REQUEST_INTERVAL, c.curr_interval * 2)],
                       out |-> Ok(None), tx |-> s.tx]
        ELSE [c |-> c, out |-> Ok(None), tx |-> <<>>]

\* Client::next_poll.
Client_next_poll(c, now_) == instant_sub(c.next_request, now_)

\* The transmit seconds of the responses: 0, the value that the conversion
\* wraps to 0 (2 208 988 800) and the largest u32.
SntpSeconds == {<<0, 0>>, <<33706, 32384>>, <<U16_MAX, U16_MAX>>}

\* What the SNTP server, or anyone else, sends to the client: responses of
\* stratum 1; a response of stratum 2 dated in NTP era 0 (3 913 056 000); a
\* kiss-o'-death; a packet in client mode; a packet one byte short.
SntpDatagrams ==
    {SntpDatagram(36, 1, sec) : sec \in SntpSeconds}
    \cup {SntpDatagram(36, 2, <<59708, 32512>>),
          SntpDatagram(36, 0, <<59708, 32512>>),
          SntpDatagram(35, 1, <<59708, 32512>>),
          SubSeq(SntpDatagram(36, 1, <<0, 0>>), 1, SNTP_LEN - 1)}

\* Client.ntp_server, the address the client was created with.
ntp_server == "62.112.134.4"

\* What socket.recv() hands the client: any of the datagrams from the
\* server's endpoint, and a server's response of stratum 1 from that
\* endpoint, from the server's address on another port and from another
\* host's port 123.
SntpArrivals ==
    {[buf |-> buf, src |-> [addr |-> ntp_server, port |-> SNTP_PORT]] :
        buf \in SntpDatagrams}
    \cup {[buf |-> SntpDatagram(36, 1, <<0, 0>>), src |-> src] :
             src \in {[addr |-> ntp_server, port |-> SNTP_PORT],
                      [addr |-> ntp_server, port |-> 1024],
                      [addr |-> "10.0.0.7", port |-> SNTP_PORT]}}

\* ------------------------------------- inputs of the TFTP codec (tftp.rs)

\* The accessors that apply to the opcode of buf, called on the unchecked
\* packet: a slice or an index beyond the end of the buffer panics.
accessors(buf) ==
    LET op == opcode(buf)
    IN  CASE op \in {"Read", "Write"} ->
               LET f == filename(buf)
                   m == mode(buf)
               IN  IF f.panic \/ m.panic THEN Panic
                   ELSE NoPanic([filename |-> f.val, mode |-> m.val])
          [] op \in {"Data", "Ack"} ->
               IF Len(buf) < 4 THEN Panic
               ELSE NoPanic([block_number |-> block_number(buf), data |-> data(buf)])
          [] op = "Error" ->
               IF Len(buf) < 4 \/ error_msg(buf).panic THEN Panic
               ELSE NoPanic([error_code |-> error_code(buf),
                             error_msg |-> error_msg(buf).val])
          [] OTHER -> NoPanic([opcode |-> op])

\* Packet::new_checked followed by Repr::parse, as serve calls them.
new_checked_parse(buf) ==
    IF check_len(buf).ok THEN parse(buf) ELSE NoPanic(check_len(buf))

\* wire/tftp.rs, mod test: the byte strings of the unit tests.
RRQ_BYTES ==
    <<0, 1, 114, 102, 99, 49, 51, 53, 48, 46, 116, 120, 116, 0, 111, 99, 116, 101, 116, 0>>

WRQ_BYTES ==
    <<0, 2, 114, 102, 99, 49, 51, 53, 48, 46, 116, 120, 116, 0, 111, 99, 116, 101, 116, 0>>

DATA_BYTES ==
    <<0, 3, 0, 1, 10, 10, 10, 10, 10, 10, 78, 101, 116, 119, 111, 114, 107, 32, 87, 111,
      114, 107, 105, 110, 103, 32, 71, 114, 111, 117, 112, 32, 32, 32, 32, 32, 32, 32, 32, 32,
      32, 32, 32, 32, 32, 32, 32, 32, 32, 32, 32, 32, 32, 32, 32, 32, 32, 32, 32, 32,
      32, 32, 32, 32, 32, 32, 32, 32, 32, 32, 32, 32, 75, 46, 32, 83, 111, 108, 108, 105,
      110, 115, 10, 82, 101, 113, 117, 101, 115, 116, 32, 70, 111, 114, 32, 67, 111, 109, 109, 101,
      110, 116, 115, 58, 32, 49, 51, 53, 48, 32, 32, 32, 32, 32, 32, 32, 32, 32, 32, 32,
      32, 32, 32, 32, 32, 32, 32, 32, 32, 32, 32, 32, 32, 32, 32, 32, 32, 32, 32, 32,
      32, 32, 32, 32, 32, 32, 32, 32, 32, 32, 32, 32, 77, 73, 84, 10, 83, 84, 68, 58,
      32, 51, 51, 32, 32, 32, 32, 32, 32, 32, 32, 32, 32, 32, 32, 32, 32, 32, 32, 32,
      32, 32, 32, 32, 32, 32, 32, 32, 32, 32, 32, 32, 32, 32, 32, 32, 32, 32, 32, 32,
      32, 32, 32, 32, 32, 32, 32, 32, 32, 32, 32, 32, 32, 32, 32, 32, 32, 32, 32, 74,
      117, 108, 121, 32, 49, 57, 57, 50, 10, 79, 98, 115, 111, 108, 101, 116, 101, 115, 58, 32,
      82, 70, 67, 32, 55, 56, 51, 10, 10, 10, 32, 32, 32, 32, 32, 32, 32, 32, 32, 32,
      32, 32, 32, 32, 32, 32, 32, 32, 32, 32, 32, 84, 72, 69, 32, 84, 70, 84, 80, 32,
      80, 82, 79, 84, 79, 67, 79, 76, 32, 40, 82, 69, 86, 73, 83, 73, 79, 78, 32, 50,
      41, 10, 10, 83, 116, 97, 116, 117, 115, 32, 111, 102, 32, 116, 104, 105, 115, 32, 77, 101,
      109, 111, 10, 10, 32, 32, 32, 84, 104, 105, 115, 32, 82, 70, 67, 32, 115, 112, 101, 99,
      105, 102, 105, 101, 115, 32, 97, 110, 32, 73, 65, 66, 32, 115, 116, 97, 110, 100, 97, 114,
      100, 115, 32, 116, 114, 97, 99, 107, 32, 112, 114, 111, 116, 111, 99, 111, 108, 32, 102, 111,
      114, 32, 116, 104, 101, 32, 73, 110, 116, 101, 114, 110, 101, 116, 10, 32, 32, 32, 99, 111,
      109, 109, 117, 110, 105, 116, 121, 44, 32, 97, 110, 100, 32, 114, 101, 113, 117, 101, 115, 116,
      115, 32, 100, 105, 115, 99, 117, 115, 115, 105, 111, 110, 32, 97, 110, 100, 32, 115, 117, 103,
      103, 101, 115, 116, 105, 111, 110, 115, 32, 102, 111, 114, 32, 105, 109, 112, 114, 111, 118, 101,
      109, 101, 110, 116, 115, 46, 10, 32, 32, 32, 80, 108, 101, 97, 115, 101, 32, 114, 101, 102,
      101, 114, 32, 116, 111, 32, 116, 104, 101, 32, 99, 117, 114, 114, 101, 110, 116, 32, 101, 100,
      105, 116, 105, 111, 110, 32, 111, 102, 32, 116, 104, 101, 32, 34, 73, 65>>

ACK_BYTES == <<0, 4, 0, 9>>

ERR_BYTES == <<0, 5, 0, 6, 69, 114, 114, 111, 114, 0>>

CanonicalBytes == {RRQ_BYTES, WRQ_BYTES, DATA_BYTES, ACK_BYTES, ERR_BYTES}

\* The strings of the records: empty, "f", "rfc1350.txt" and "é".
WireStrings == {<<>>, FName, SubSeq(RRQ_BYTES, 3, 13), <<195, 169>>}

\* The records handed to Repr::emit.  An ErrorCode is a named variant, or
\* Unknown(n) with any u16 n, that of a named variant included.
WireReprs ==
    {ReadRequest(f, m) : f \in WireStrings, m \in {"NetAscii", "Octet", "Mail", "Unknown"}}
    \cup {WriteRequest(f, m) : f \in WireStrings,
                               m \in {"NetAscii", "Octet", "Mail", "Unknown"}}
    \cup {Data(n, d) : n \in {0, 1, U16_MAX},
                       d \in {<<>>, <<0>>, <<10, 0, 255>>, data(DATA_BYTES)}}
    \cup {Ack(n) : n \in {0, 9, U16_MAX}}
    \cup {Error(c, msg) : c \in {ErrorCode(n) : n \in (0..8) \cup {U16_MAX}}
                                \cup {[code |-> "Unknown", n |-> n] : n \in {0, 3, 7}},
                          msg \in {<<>>, SubSeq(ERR_BYTES, 5, 9)}}

\* The bytes of the buffers handed to Packet::check_len: NUL, the opcodes,
\* an unknown opcode, "o", and a byte that no UTF-8 string holds.
WireBytes == {0, 1, 2, 3, 4, 5, 9, 111, 255}

\* The buffers of n bytes over WireBytes.
RECURSIVE BuffersOf(_)
BuffersOf(n) ==
    IF n = 0 THEN {<<>>}
    ELSE {Append(b, x) : b \in BuffersOf(n - 1), x \in WireBytes}

\* The buffers handed to Packet::check_len.
WireBuffers ==
    UNION {BuffersOf(n) : n \in 0..MaxBufLen} \cup CanonicalBytes

\* ------------------------------------------------------------------- state

VARIABLES
    transfers,   \* the caller's ManagedSlice<Option<Transfer>>
    managed,     \* "Borrowed" (fixed capacity) or "Owned" (growable)
    next_poll,   \* Server.next_poll
    is_open,     \* whether the UDP socket is bound
    now,         \* the Instant passed to the latest call (the owner's clock)
    opened,      \* Context: how many handles open has returned
    closed,      \* Context: the handles passed to close, in order
    call,        \* what socket.recv() returned to the latest call
    tx,          \* the packets the latest call sent
    io,          \* the Context and Handle calls the latest call made
    ret,         \* how the latest call ended: "Ok", "Err" or "Panic"
    hist,        \* per endpoint, the history of its current transfer
    quiet,       \* consecutive calls that found nothing to receive, could
                 \* send, and came RETRY_TIMEOUT or more after the one before
    next_request,   \* Client.next_request
    curr_interval,  \* Client.curr_interval
    sntp_open,      \* whether the client's UDP socket is bound
    sntp_now,       \* the Instant passed to the client's latest call
    sntp_call,      \* the client's latest call and what socket.recv() returned
    sntp_out,       \* what the client's latest call returned
    sntp_tx,        \* the packets the client's latest call sent
    sent,           \* how many requests the client has sent
    accepted,       \* how many responses the client has accepted
    sntp_log,       \* when the client last sent a request and last returned
                    \* a timestamp
    wire,           \* the codec's latest use: what went in and what came out
    timer           \* a transfer under Transfer::process_timeout, call after call

tftp_vars == <<transfers, managed, next_poll, is_open, now, opened, closed,
               call, tx, io, ret, hist, quiet>>

sntp_vars == <<next_request, curr_interval, sntp_open, sntp_now, sntp_call,
               sntp_out, sntp_tx, sent, accepted, sntp_log>>

wire_vars == <<wire>>

timer_vars == <<timer>>

vars == <<tftp_vars, sntp_vars, wire_vars, timer_vars>>

\* The history of an endpoint without a transfer.
Fresh == [phase |-> "none", write |-> FALSE, acked |-> {}, dlog |-> <<>>,
          size |-> 0, id |-> 0, copies |-> 0]

\* The DATA packets among pkts sent to endpoint e, as [block_num, len].
DataTo(pkts, e) ==
    LET sel == SelectSeq(pkts, LAMBDA p : p.ep = e /\ p.repr.type = "Data")
    IN  [k \in 1..Len(sel) |->
            [block_num |-> sel[k].repr.block_num, len |-> Len(sel[k].repr.data)]]

\* Whether the call c is the arrival, from e, of a well-formed packet of
\* opcode op.
IsPacketOf(c, e, op) ==
    /\ c.kind = "packet" /\ c.ep = e
    /\ check_len(c.buf).ok
    /\ opcode(c.buf) = op

\* The history of endpoint e after a call c that took the table from pre to
\* post, sent pkts and ended r.  phase is "clean" while the transfer was
\* created without fault and every call since that concerned it ended Ok
\* without an ERROR, having received, for a read transfer, the ACK of the
\* block just sent and, for a write transfer, a DATA packet; "done" in the
\* state that follows the call in which a clean transfer terminated in this
\* way; "dirty" for any other transfer.  acked holds the block numbers of
\* the ACKs received, dlog the DATA packets sent while clean, and copies
\* the number of DATA packets sent to e by the last call that received a
\* datagram from e and by the calls since, counted up to MAX_RETRIES + 2.
HistStep(h, e, c, pre, post, pkts, r) ==
    LET base == IF h.phase = "done" THEN Fresh ELSE h
        i == xfer_idx(pre, e)
        j == xfer_idx(post, e)
        noError == \A k \in 1..Len(pkts) :
                      pkts[k].ep = e => pkts[k].repr.type # "Error"
        inOrder == /\ i # None /\ r = "Ok" /\ noError
                   /\ IF pre[i[1]][1].is_write
                      THEN IsPacketOf(c, e, "Data")
                      ELSE /\ IsPacketOf(c, e, "Ack")
                           /\ block_number(c.buf) = pre[i[1]][1].block_num
        acks == IF i # None /\ IsPacketOf(c, e, "Ack")
                THEN base.acked \cup {block_number(c.buf)} ELSE base.acked
        touched == \/ c.kind = "packet" /\ c.ep = e
                   \/ \E k \in 1..Len(pkts) : pkts[k].ep = e
        phase == IF base.phase = "clean" /\ (inOrder \/ ~touched)
                 THEN "clean" ELSE "dirty"
        copies == IF c.kind = "packet" /\ c.ep = e
                  THEN Len(DataTo(pkts, e))
                  ELSE Min(base.copies + Len(DataTo(pkts, e)), MAX_RETRIES + 2)
    IN  IF j = None
        THEN IF i # None /\ base.phase = "clean" /\ inOrder
             THEN [base EXCEPT !.phase = "done", !.acked = acks, !.copies = copies]
             ELSE Fresh
        ELSE IF i = None
        THEN LET x == post[j[1]][1]
                 ok == r = "Ok" /\ noError
             IN  [phase |-> IF ok THEN "clean" ELSE "dirty",
                  write |-> x.is_write,
                  acked |-> {},
                  dlog |-> IF ok THEN DataTo(pkts, e) ELSE <<>>,
                  size |-> x.handle.size, id |-> x.handle.id, copies |-> copies]
        ELSE [base EXCEPT !.phase = phase, !.acked = acks, !.copies = copies,
                          !.dlog = IF phase = "clean"
                                   THEN base.dlog \o DataTo(pkts, e) ELSE <<>>]

Init ==
    /\ managed \in {"Borrowed", "Owned"}
    /\ transfers = IF managed = "Borrowed" THEN [i \in 1..NumSlots |-> None] ELSE <<>>
    /\ next_poll = 0
    /\ is_open = FALSE
    /\ now = 0
    /\ opened = 0
    /\ closed = <<>>
    /\ call = [kind |-> "new"]
    /\ tx = <<>>
    /\ io = <<>>
    /\ ret = "Ok"
    /\ hist = [e \in Endpoints |-> Fresh]
    /\ quiet = 0
    /\ next_request = 0
    /\ curr_interval = MIN_REQUEST_INTERVAL
    /\ sntp_open = FALSE
    /\ sntp_now = 0
    /\ sntp_call = [op |-> "new"]
    /\ sntp_out = Ok(None)
    /\ sntp_tx = <<>>
    /\ sent = 0
    /\ accepted = 0
    /\ sntp_log = [requested |-> None, accepted |-> None]
    /\ wire = [op |-> "new"]
    /\ timer = [op |-> "new"]

\* The Instants the next call may pass: the clock does not run backwards.
Times(horizon) == {t \in {now, now + RETRY_TIMEOUT} : t <= horizon}

\* The record a call starts from.
Machine(room, checks) ==
    [transfers |-> transfers, managed |-> managed, opened |-> opened,
     closed |-> closed, tx |-> <<>>, io |-> <<>>, room |-> room, checks |-> checks]

\* Whether the build's overflow checks can matter to the coming call.
Checks ==
    IF \E i \in 1..Len(transfers) :
          transfers[i] # None /\ transfers[i][1].block_num \in {0, U16_MAX}
    THEN BOOLEAN ELSE {TRUE}

\* The state after a call at time t that ended as r (a Ret); c is what
\* socket.recv() returned to it, and the state of the socket it saw.
Serve(t, c, r) ==
    /\ now' = t
    /\ is_open' = TRUE
    /\ next_poll' = t + POLL_MILLIS
    /\ transfers' = r.m.transfers
    /\ opened' = r.m.opened
    /\ closed' = r.m.closed
    /\ tx' = r.m.tx
    /\ io' = r.m.io
    /\ ret' = r.ret
    /\ call' = c
    /\ hist' = [e \in Endpoints |->
                  HistStep(hist[e], e, c, transfers, r.m.transfers, r.m.tx, r.ret)]
    /\ quiet' = IF c.kind = "exhausted" /\ c.can_send /\ t >= now + RETRY_TIMEOUT
                THEN Min(quiet + 1, MAX_RETRIES + 1) ELSE 0
    /\ UNCHANGED managed
    /\ UNCHANGED <<sntp_vars, wire_vars, timer_vars>>

\* An environment: the latest Instant, the endpoints that send, the
\* datagrams they send, the lengths of the files, and whether the
\* collaborators may fail (a full tx buffer, a failing open, read or write).
Environment(horizon, eps, dgrams, sizes, faults) ==
    [horizon |-> horizon, eps |-> eps, dgrams |-> dgrams, sizes |-> sizes,
     oks |-> IF faults THEN BOOLEAN ELSE {TRUE},
     rooms |-> IF faults THEN {0, 1} ELSE {1}]

\* Server::serve when socket.recv() returns a datagram buf from endpoint ep.
\* Requests stop arriving once MaxOpens handles have been opened.
ServePacketIn(E) ==
    /\ ret # "Panic"
    /\ \E t \in Times(E.horizon), ep \in E.eps, buf \in E.dgrams :
         /\ (Len(buf) >= 2 /\ opcode(buf) \in {"Read", "Write"}) => opened < MaxOpens
         /\ \E env \in Envs(buf, E.sizes, E.oks), room \in E.rooms, checks \in Checks :
              Serve(t, [kind |-> "packet", ep |-> ep, buf |-> buf],
                    serve_packet(Machine(room, checks), buf, ep, t, env))

\* Server::serve when socket.recv() returns Err(Exhausted).
ServeExhaustedIn(E) ==
    /\ ret # "Panic"
    /\ \E t \in Times(E.horizon), can_send \in BOOLEAN :
         \E room \in IF can_send THEN 1..MaxTxRoom ELSE {0} :
            Serve(t, [kind |-> "exhausted", can_send |-> can_send],
                  serve_exhausted(Machine(room, TRUE), can_send, t, t + POLL_MILLIS))

\* Server::serve when socket.recv() returns any other error.
ServeRecvErrorIn(E) ==
    /\ ret # "Panic"
    /\ \E t \in Times(E.horizon) :
            Serve(t, [kind |-> "error"], Ret(Machine(0, TRUE), "Err"))

\* The environment of Spec: every kind of datagram from every endpoint, at
\* one Instant, with collaborators that may fail.
World == Environment(0, Endpoints, Datagrams, {76}, TRUE)

ServePacket == ServePacketIn(World)
ServeExhausted == ServeExhaustedIn(World)
ServeRecvError == ServeRecvErrorIn(World)

Next == ServePacket \/ ServeExhausted \/ ServeRecvError

Spec == Init /\ [][Next]_vars

\* The environment of SpecRead: one client that reads files of every
\* length, with collaborators that may fail.
ReadWorld == Environment(0, {1}, ReadDatagrams, FileSizes, TRUE)

ReadPacket == ServePacketIn(ReadWorld)
ReadExhausted == ServeExhaustedIn(ReadWorld)
ReadRecvError == ServeRecvErrorIn(ReadWorld)

NextRead == ReadPacket \/ ReadExhausted \/ ReadRecvError

SpecRead == Init /\ [][NextRead]_vars

\* The environment of SpecReadPair: two clients that read at the same time,
\* collaborators that do not fail.
ReadPairWorld == Environment(0, Endpoints, ReadDatagrams, FileSizes, FALSE)

ReadPairPacket == ServePacketIn(ReadPairWorld)
ReadPairExhausted == ServeExhaustedIn(ReadPairWorld)
ReadPairRecvError == ServeRecvErrorIn(ReadPairWorld)

NextReadPair == ReadPairPacket \/ ReadPairExhausted \/ ReadPairRecvError

SpecReadPair == Init /\ [][NextReadPair]_vars

\* The environment of SpecWrite: clients that write files.
WriteWorld == Environment(0, Endpoints, WriteDatagrams, {76}, TRUE)

WritePacket == ServePacketIn(WriteWorld)
WriteExhausted == ServeExhaustedIn(WriteWorld)
WriteRecvError == ServeRecvErrorIn(WriteWorld)

NextWrite == WritePacket \/ WriteExhausted \/ WriteRecvError

SpecWrite == Init /\ [][NextWrite]_vars

\* The environment of SpecTimer: one client that starts a transfer and then
\* falls silent, a clock that runs for TimerTicks periods of RETRY_TIMEOUT
\* beyond the MAX_RETRIES + 1 that a transfer may last, and collaborators
\* that do not fail.
TimerWorld ==
    Environment((TimerTicks + MAX_RETRIES + 1) * RETRY_TIMEOUT, {1},
                {RRQ, WRQ, Datagram(Ack(1))}, {76, BLOCK_SIZE}, FALSE)

TimerPacket == ServePacketIn(TimerWorld)
TimerExhausted == ServeExhaustedIn(TimerWorld)
TimerRecvError == ServeRecvErrorIn(TimerWorld)

NextTimer == TimerPacket \/ TimerExhausted \/ TimerRecvError

SpecTimer == Init /\ [][NextTimer]_vars

\* The requests for the file "f" (opcode, filename, NUL, mode string, NUL)
\* with the mode strings "octet", "O", "ox", "netascii", "N", "mail", "M",
\* "xo", "bin" and the empty string.
ModeDatagrams ==
    LET strings ==
           {<<111, 99, 116, 101, 116>>, <<79>>, <<111, 120>>,
            <<110, 101, 116, 97, 115, 99, 105, 105>>, <<78>>,
            <<109, 97, 105, 108>>, <<77>>, <<120, 111>>, <<98, 105, 110>>, <<>>}
    IN  {<<0, op>> \o FName \o <<0>> \o str \o <<0>> : op \in {1, 2}, str \in strings}

\* The environment of SpecMode: clients that send those requests.
ModeWorld == Environment(0, Endpoints, ModeDatagrams, {76}, FALSE)

NextMode ==
    \/ ServePacketIn(ModeWorld)
    \/ ServeExhaustedIn(ModeWorld)
    \/ ServeRecvErrorIn(ModeWorld)

SpecMode == Init /\ [][NextMode]_vars

\* The environment of SpecReset: one client that reads or writes, sends
\* packets of every type in any order, and lets up to ResetTicks periods
\* of RETRY_TIMEOUT pass; collaborators that may fail.
ResetWorld ==
    Environment(ResetTicks * RETRY_TIMEOUT, {1},
                {RRQ, WRQ, Datagram(Ack(1)), Datagram(Ack(2)),
                 Datagram(ClientData(1, BLOCK_SIZE)), Datagram(ClientData(1, 300)),
                 Datagram(Error(ErrorCode(0), <<69>>))},
                {1100}, TRUE)

NextReset ==
    \/ ServePacketIn(ResetWorld)
    \/ ServeExhaustedIn(ResetWorld)
    \/ ServeRecvErrorIn(ResetWorld)

SpecReset == Init /\ [][NextReset]_vars

\* A file of just over 32 MiB: U16_MAX + 2 full blocks and a short one.
LongSize == (U16_MAX + 2) * BLOCK_SIZE + 76

\* The transfers of endpoint 1 that have reached block U16_MAX - 1: a read
\* of the long file, block U16_MAX - 1 sent and awaiting its ACK, and a write
\* that has taken U16_MAX - 2 full blocks (written logs the blocks written
\* from here on).
LongTransfers ==
    {[handle |-> [id |-> 1, write_mode |-> FALSE, size |-> LongSize,
                  pos |-> (U16_MAX - 1) * BLOCK_SIZE, written |-> <<>>],
      ep |-> 1, is_write |-> FALSE, block_num |-> U16_MAX - 1,
      last_data |-> Some(Chunk(LongSize, U16_MAX - 1)), last_len |-> BLOCK_SIZE,
      retries |-> 0, timeout |-> RETRY_TIMEOUT],
     [handle |-> [id |-> 1, write_mode |-> TRUE, size |-> 0, pos |-> 0,
                  written |-> <<>>],
      ep |-> 1, is_write |-> TRUE, block_num |-> U16_MAX - 1,
      last_data |-> None, last_len |-> 0,
      retries |-> 0, timeout |-> RETRY_TIMEOUT]}

\* The server U16_MAX - 2 blocks into a transfer: the state that follows
\* the call, at Instant 0, that received the ACK or the DATA packet numbered
\* U16_MAX - 2 and answered it.  An ACK was repeated on the way.
InitLong ==
    /\ managed \in {"Borrowed", "Owned"}
    /\ \E x \in LongTransfers :
          /\ transfers = <<Some(x)>>
          /\ call = [kind |-> "packet", ep |-> 1,
                     buf |-> Datagram(IF x.is_write
                                      THEN Data(U16_MAX - 2, Fill(BLOCK_SIZE, 7))
                                      ELSE Ack(U16_MAX - 2))]
          /\ tx = <<[ep |-> 1,
                     repr |-> IF x.is_write THEN Ack(U16_MAX - 2)
                              ELSE Data(U16_MAX - 1, x.last_data[1])]>>
          /\ io = <<[op |-> IF x.is_write THEN "write" ELSE "read", id |-> 1,
                     len |-> BLOCK_SIZE, ok |-> TRUE]>>
          /\ hist = [e \in Endpoints |->
                       IF e = 1
                       THEN [phase |-> "dirty", write |-> x.is_write,
                             acked |-> IF x.is_write THEN {} ELSE 1..(U16_MAX - 2),
                             dlog |-> <<>>, size |-> x.handle.size, id |-> 1,
                             copies |-> IF x.is_write THEN 0 ELSE 1]
                       ELSE Fresh]
    /\ next_poll = POLL_MILLIS
    /\ is_open = TRUE
    /\ now = 0
    /\ opened = 1
    /\ closed = <<>>
    /\ ret = "Ok"
    /\ quiet = 0
    /\ next_request = 0
    /\ curr_interval = MIN_REQUEST_INTERVAL
    /\ sntp_open = FALSE
    /\ sntp_now = 0
    /\ sntp_call = [op |-> "new"]
    /\ sntp_out = Ok(None)
    /\ sntp_tx = <<>>
    /\ sent = 0
    /\ accepted = 0
    /\ sntp_log = [requested |-> None, accepted |-> None]
    /\ wire = [op |-> "new"]
    /\ timer = [op |-> "new"]

\* The environment of SpecLong: the client of the long transfer and another
\* one; ACKs and full DATA blocks numbered around the largest u16, and a
\* short DATA block 1; collaborators that do not fail.
LongWorld ==
    Environment(0, Endpoints,
                {Datagram(Ack(n)) : n \in {U16_MAX - 1, U16_MAX, 0, 1}}
                \cup {Datagram(Data(n, Fill(BLOCK_SIZE, 7))) :
                         n \in {U16_MAX - 1, U16_MAX, 0}}
                \cup {Datagram(Data(1, Fill(300, 7)))},
                {LongSize}, FALSE)

NextLong ==
    \/ ServePacketIn(LongWorld)
    \/ ServeExhaustedIn(LongWorld)
    \/ ServeRecvErrorIn(LongWorld)

SpecLong == InitLong /\ [][NextLong]_vars

\* The environment of SpecOversize: clients that read a file of three
\* blocks and clients that write, one of whose DATA datagrams carries a byte
\* more than a block; the socket's rx buffer (1048 bytes) has room for it.
OversizeWorld ==
    Environment(0, Endpoints,
                {RRQ, WRQ, Datagram(Ack(1)), Datagram(ClientData(1, BLOCK_SIZE)),
                 Datagram(ClientData(1, BLOCK_SIZE + 1)),
                 Datagram(ClientData(2, BLOCK_SIZE + 1))},
                {1100}, FALSE)

NextOversize ==
    \/ ServePacketIn(OversizeWorld)
    \/ ServeExhaustedIn(OversizeWorld)
    \/ ServeRecvErrorIn(OversizeWorld)

SpecOversize == Init /\ [][NextOversize]_vars

\* ------------------------------------------------------- the SNTP client

\* The Instants the client's owner may pass next: the same again, the
\* deadline, or MIN_REQUEST_INTERVAL past the deadline.
SntpTimes ==
    {t \in {sntp_now, next_request} \cup
            (IF sent < MaxLate THEN {next_request + MIN_REQUEST_INTERVAL} ELSE {}) :
        t >= sntp_now}

\* The owner goes on calling the client.
SntpRunning == sent < MaxRequests /\ accepted < MaxAccepts

\* The state after Client::poll at time t, socket.recv() having returned rx.
Poll(t, rx, can_send, room) ==
    LET r == poll([next_request |-> next_request, curr_interval |-> curr_interval],
                  rx, t, can_send, room)
    IN  /\ sntp_now' = t
        /\ sntp_open' = TRUE
        /\ next_request' = r.c.next_request
        /\ curr_interval' = r.c.curr_interval
        /\ sntp_call' = [op |-> "poll", rx |-> rx, can_send |-> can_send]
        /\ sntp_out' = r.out
        /\ sntp_tx' = r.tx
        /\ sent' = sent + Len(r.tx)
        /\ accepted' = IF r.out.ok /\ r.out.val # None THEN accepted + 1 ELSE accepted
        /\ sntp_log' = [requested |-> IF r.tx # <<>> THEN Some(t)
                                       ELSE sntp_log.requested,
                        accepted |-> IF r.out.ok /\ r.out.val # None THEN Some(t)
                                      ELSE sntp_log.accepted]
        /\ UNCHANGED <<tftp_vars, wire_vars, timer_vars>>

\* Client::poll when socket.recv() returns a datagram and the endpoint it
\* came from: the socket was bound by an earlier poll.
ClientPollPacket ==
    /\ SntpRunning
    /\ sntp_open
    /\ \E t \in SntpTimes, a \in SntpArrivals, can_send \in BOOLEAN :
         \E room \in IF can_send THEN {0, 1} ELSE {0} :
            Poll(t, [kind |-> "packet", buf |-> a.buf, src |-> a.src],
                 can_send, room)

\* Client::poll when socket.recv() returns Err(Exhausted).
ClientPollExhausted ==
    /\ SntpRunning
    /\ \E t \in SntpTimes, can_send \in BOOLEAN :
         \E room \in IF can_send THEN {0, 1} ELSE {0} :
            Poll(t, [kind |-> "exhausted"], can_send, room)

\* Client::poll when socket.recv() returns any other error.
ClientPollRecvError ==
    /\ SntpRunning
    /\ \E t \in SntpTimes : Poll(t, [kind |-> "error"], FALSE, 0)

\* Client::next_poll at time t.
ClientNextPoll ==
    /\ SntpRunning
    /\ \E t \in SntpTimes :
         /\ sntp_now' = t
         /\ sntp_call' = [op |-> "next_poll"]
         /\ sntp_out' = Client_next_poll([next_request |-> next_request,
                                          curr_interval |-> curr_interval], t)
         /\ sntp_tx' = <<>>
         /\ UNCHANGED <<next_request, curr_interval, sntp_open, sent, accepted,
                        sntp_log>>
         /\ UNCHANGED <<tftp_vars, wire_vars, timer_vars>>

NextSntp ==
    ClientPollPacket \/ ClientPollExhausted \/ ClientPollRecvError \/ ClientNextPoll

SpecSntp == Init /\ [][NextSntp]_vars

\* --------------------------------------------------------- the TFTP codec

\* Repr::emit of r into a buffer of buffer_len(r) bytes, and what
\* Packet::new_checked and Repr::parse make of the buffer.  The codec keeps
\* no state: one use is all there is to observe.
EmitThenParse ==
    \E r \in WireReprs :
       LET buf == emit(r, Fill(buffer_len(r), FILLER))
       IN  /\ wire.op = "new"
           /\ wire' = [op |-> "emit", repr |-> r, buf |-> buf,
                       parsed |-> new_checked_parse(buf)]
           /\ UNCHANGED <<tftp_vars, sntp_vars, timer_vars>>

\* Packet::check_len of buf, the accessors and Repr::parse on the packet
\* that passes, and Repr::emit of the record parsed.
CheckThenParse ==
    \E buf \in WireBuffers :
       LET check == check_len(buf)
           parsed == new_checked_parse(buf)
       IN  /\ wire.op = "new"
           /\ wire' = [op |-> "parse", buf |-> buf, check |-> check,
                       fields |-> IF check.ok THEN accessors(buf) ELSE NoPanic(check),
                       parsed |-> parsed,
                       again |-> IF ~parsed.panic /\ parsed.val.ok
                                 THEN emit(parsed.val.val,
                                           Fill(buffer_len(parsed.val.val), FILLER))
                                 ELSE <<>>]
           /\ UNCHANGED <<tftp_vars, sntp_vars, timer_vars>>

NextCodec == EmitThenParse \/ CheckThenParse

SpecCodec == Init /\ [][NextCodec]_vars

\* ------------------------------------------- Transfer::process_timeout

\* The transfers handed to process_timeout: a read transfer that has sent
\* its first block and a write transfer, with no retry behind them, one
\* retry left or none left, and their timeout at RETRY_TIMEOUT.
TimerTransfers ==
    {[handle |-> NewHandle(1, w, 76),
      ep |-> 1,
      is_write |-> w,
      block_num |-> 1,
      last_data |-> IF w THEN None ELSE Some(Fill(BLOCK_SIZE, 1)),
      last_len |-> IF w THEN 0 ELSE 76,
      retries |-> n,
      timeout |-> RETRY_TIMEOUT] : w \in BOOLEAN, n \in {0, MAX_RETRIES - 1, MAX_RETRIES}}

\* The state after process_timeout(now = t) on the transfer x, the socket
\* having room for `room` packets; step counts the calls, and prev is the
\* Instant of the latest retransmission before this call.
ProcessTimeout(x, t, room, step, prev) ==
    LET r == process_timeout(x, [tx |-> <<>>, room |-> room], t)
    IN  /\ timer' = [op |-> IF r.drop THEN "dropped" ELSE "kept",
                     before |-> x, x |-> r.x, now |-> t, room |-> room,
                     ok |-> r.ok, drop |-> r.drop, sent |-> r.m.tx,
                     step |-> step, prev |-> prev]
        /\ UNCHANGED <<tftp_vars, sntp_vars, wire_vars>>

\* process_timeout on a transfer for the first time.
TimerFirst ==
    /\ timer.op = "new"
    /\ \E x \in TimerTransfers, room \in {0, 1},
          t \in {0, RETRY_TIMEOUT - 1, RETRY_TIMEOUT, RETRY_TIMEOUT + 1} :
         ProcessTimeout(x, t, room, 1, None)

\* process_timeout on the transfer it has left in place, at once, 1 ms
\* later or RETRY_TIMEOUT later.
TimerAgain ==
    /\ timer.op = "kept"
    /\ timer.step < MaxTimerSteps
    /\ \E room \in {0, 1},
          t \in {timer.now, timer.now + 1, timer.now + RETRY_TIMEOUT} :
         ProcessTimeout(timer.x, t, room, timer.step + 1,
                        IF timer.sent # <<>> THEN Some(timer.now) ELSE timer.prev)

NextTimeout == TimerFirst \/ TimerAgain

SpecTimeout == Init /\ [][NextTimeout]_vars

\* --------------------------------------------------------------- properties

\* The slots of the table tr that hold a transfer.
Occupied(tr) == {i \in 1..Len(tr) : tr[i] # None}

\* Whether the call c received a datagram that the codec decodes.
Decoded(c) ==
    /\ c.kind = "packet"
    /\ check_len(c.buf).ok
    /\ ~parse(c.buf).panic
    /\ parse(c.buf).val.ok

\* The Repr of the datagram that a Decoded call received.
ReprOf(c) == parse(c.buf).val.val

\* Whether the call c received a read or write request.
IsRequest(c) ==
    Decoded(c) /\ ReprOf(c).type \in {"ReadRequest", "WriteRequest"}

\* A call that does nothing but reply to e with ERROR(code, msg): it ends Ok
\* having handed that one packet to the socket, or, the socket refusing the
\* packet, ends with the socket's error having sent nothing.
RepliedError(pkts, r, e, code, msg) ==
    \/ pkts = <<[ep |-> e, repr |-> Error(code, msg)]>> /\ r = "Ok"
    \/ pkts = <<>> /\ r = "Err"

\* C1: once serve has been called MAX_RETRIES + 1 times in a row with
\* nothing to receive, the socket able to send and `now` RETRY_TIMEOUT
\* later each time, no transfer is left: every slot is empty and every handle
\* opened has been passed to Context::close.  The code violates it: serve
\* stores next_poll = now + 50 ms before it tests now >= next_poll, so the
\* loop over the transfers never runs.
C1_SilentPeerAbandoned ==
    quiet >= MAX_RETRIES + 1 =>
        /\ Occupied(transfers) = {}
        /\ Len(closed) = opened

\* C2: a call that finds nothing to receive while the socket can send
\* increments the retries of every read transfer whose timeout has passed
\* and whose retries are below MAX_RETRIES, and sends its last DATA packet
\* again, same block number and same payload.  The code violates it, for
\* the reason given at C1.
C2_RetransmissionStep ==
    [][(call'.kind = "exhausted" /\ call'.can_send) =>
         \A i \in Occupied(transfers) :
            LET x == transfers[i][1]
            IN  (/\ ~x.is_write
                 /\ x.last_data # None
                 /\ x.timeout <= now'
                 /\ x.retries < MAX_RETRIES) =>
                    /\ i \in Occupied(transfers')
                    /\ transfers'[i][1].retries = x.retries + 1
                    /\ \E k \in 1..Len(tx') :
                          tx'[k] = [ep |-> x.ep,
                                    repr |-> Data(x.block_num,
                                                  SubSeq(x.last_data[1], 1, x.last_len))]
       ]_vars

\* C3: every DATA packet the server sends to an endpoint carries block
\* number 1, or a block number N + 1 such that the ACK of block N has been
\* received from that endpoint within the same transfer.
C3_Lockstep ==
    \A k \in 1..Len(tx) :
       tx[k].repr.type = "Data" =>
          \/ tx[k].repr.block_num = 1
          \/ tx[k].repr.block_num - 1 \in hist[tx[k].ep].acked

\* A third block has been sent.
C3_Witness ==
    \E k \in 1..Len(tx) :
       /\ tx[k].repr.type = "Data"
       /\ tx[k].repr.block_num = 3
       /\ hist[tx[k].ep].acked = {1, 2}

\* C4: a read transfer of a file of length L that was created without fault
\* and has since received the ACK of each block in order has been sent blocks
\* 1, 2, .. in order, each once, each the next 512 bytes of the file except
\* block floor(L/512) + 1, which carries the last L mod 512 bytes; it stays in
\* the table until that block is acknowledged, and the call that receives
\* that ACK frees the slot, closes the handle and sends nothing.
C4_CompleteRead ==
    \A e \in Endpoints :
       (hist[e].phase \in {"clean", "done"} /\ ~hist[e].write) =>
          LET L == hist[e].size
              last == (L \div BLOCK_SIZE) + 1
              d == hist[e].dlog
          IN  /\ Len(d) \in 1..last
              /\ \A i \in 1..Len(d) :
                    d[i] = [block_num |-> i,
                            len |-> IF i < last THEN BLOCK_SIZE ELSE L % BLOCK_SIZE]
              /\ \A k \in 1..Len(tx) :
                    tx[k].ep = e =>
                       /\ hist[e].phase = "clean"
                       /\ tx[k].repr = Data(Len(d), Chunk(L, Len(d)))
              /\ hist[e].phase = "clean" =>
                    /\ hist[e].acked = 1..(Len(d) - 1)
                    /\ xfer_idx(transfers, e) # None
              /\ hist[e].phase = "done" =>
                    /\ hist[e].acked = 1..last
                    /\ Len(d) = last
                    /\ xfer_idx(transfers, e) = None
                    /\ \E c \in 1..Len(closed) : closed[c].id = hist[e].id

\* The 1100-byte file has been served in three blocks and its transfer has
\* terminated on the ACK of the third.
C4_Witness ==
    \E e \in Endpoints :
       /\ hist[e].phase = "done" /\ ~hist[e].write
       /\ hist[e].size = 1100
       /\ Len(hist[e].dlog) = 3
       /\ IsPacketOf(call, e, "Ack")

\* C5: a write transfer created without fault answers its request with
\* Ack{0} and starts with nothing written; while every call since that
\* concerned it was a DATA packet answered without fault, a DATA packet
\* carrying the expected block number has its payload passed to
\* Handle::write and is answered with the ACK of its number, any other is
\* answered with the ACK of the block before the expected one and writes
\* nothing; so what has been written is the payloads of blocks 1, 2, .. in
\* order, each once, all of them 512 bytes long, until a shorter block is
\* accepted, and the call that accepts it frees the slot and closes the
\* handle.
C5_CompleteWrite ==
    [][\A e \in Endpoints :
          (/\ call'.kind = "packet" /\ call'.ep = e
           /\ hist'[e].write /\ hist'[e].phase \in {"clean", "done"}) =>
             LET i == xfer_idx(transfers, e)
                 j == xfer_idx(transfers', e)
             IN  IF i = None
                 THEN /\ tx' = <<[ep |-> e, repr |-> Ack(0)]>>
                      /\ j # None
                      /\ transfers'[j[1]][1].handle.written = <<>>
                      /\ transfers'[j[1]][1].block_num = 1
                 ELSE
                 LET x == transfers[i[1]][1]
                     n == block_number(call'.buf)
                     payload == data(call'.buf)
                     h == IF j # None THEN transfers'[j[1]][1].handle
                          ELSE closed'[Len(closed')]
                 IN  /\ h.id = x.handle.id
                     /\ IF n = x.block_num
                        THEN /\ h.written = Append(x.handle.written, payload)
                             /\ tx' = <<[ep |-> e, repr |-> Ack(n)]>>
                             /\ (j = None) <=> (Len(payload) < BLOCK_SIZE)
                             /\ j = None => closed' = Append(closed, h)
                             /\ j # None => transfers'[j[1]][1].block_num = n + 1
                        ELSE /\ j # None
                             /\ transfers'[j[1]][1].handle = x.handle
                             /\ transfers'[j[1]][1].block_num = x.block_num
                             /\ closed' = closed
                             /\ tx' = <<[ep |-> e, repr |-> Ack(x.block_num - 1)]>>
                     /\ \A b \in 1..Len(h.written) :
                           /\ h.written[b] = Fill(Len(h.written[b]), b)
                           /\ b < Len(h.written) => Len(h.written[b]) = BLOCK_SIZE
      ]_vars

\* A client has written a full block and a block of 300 bytes, and the call
\* that received the second has acknowledged it and closed the handle.
C5_Witness ==
    \E e \in Endpoints :
       /\ hist[e].phase = "done" /\ hist[e].write
       /\ IsPacketOf(call, e, "Data")
       /\ tx = <<[ep |-> e, repr |-> Ack(2)]>>
       /\ closed # <<>>
       /\ closed[Len(closed)].written = <<Fill(BLOCK_SIZE, 1), Fill(300, 2)>>

\* C6: no two occupied slots of the transfer table hold the same endpoint.
C6_OnePerEndpoint ==
    \A i, j \in Occupied(transfers) :
       i # j => transfers[i][1].ep # transfers[j][1].ep

\* Two slots are occupied.
C6_Witness == Cardinality(Occupied(transfers)) >= 2

\* C7: a call that receives a read or write request from an endpoint that
\* owns a transfer leaves the table as it was, opens and closes nothing, and
\* replies with ERROR(AccessViolation, "Multiple connections not supported").
C7_DuplicateRequest ==
    [][(IsRequest(call') /\ xfer_idx(transfers, call'.ep) # None) =>
         /\ transfers' = transfers
         /\ opened' = opened
         /\ closed' = closed
         /\ io' = <<>>
         /\ RepliedError(tx', ret', call'.ep, AccessViolation,
                         "Multiple connections not supported")
      ]_vars

\* An endpoint that owns a transfer has sent a request and got the ERROR.
C7_Witness ==
    /\ IsRequest(call)
    /\ xfer_idx(transfers, call.ep) # None
    /\ tx = <<[ep |-> call.ep,
               repr |-> Error(AccessViolation, "Multiple connections not supported")]>>

\* C8: a call that receives a datagram from an endpoint leaves the transfer
\* of every other endpoint in its slot, unchanged; a transfer the call
\* creates occupies a slot that held none.
C8_Isolation ==
    [][call'.kind = "packet" =>
         /\ \A i \in Occupied(transfers) :
               transfers[i][1].ep # call'.ep =>
                  /\ i \in Occupied(transfers')
                  /\ transfers'[i] = transfers[i]
         /\ \A j \in Occupied(transfers') :
               (/\ transfers'[j][1].ep = call'.ep
                /\ xfer_idx(transfers, call'.ep) = None) =>
                  j \notin Occupied(transfers)
      ]_vars

\* While another endpoint owns a transfer, an ACK has terminated the
\* transfer of the endpoint that sent it.
C8_Witness ==
    /\ IsPacketOf(call, call.ep, "Ack")
    /\ \E i \in Occupied(transfers) : transfers[i][1].ep # call.ep
    /\ xfer_idx(transfers, call.ep) = None
    /\ io # <<>> /\ io[Len(io)].op = "close"

\* C9: a call that receives an octet-mode request from an endpoint without
\* a transfer while every slot is occupied: with a borrowed table, replies
\* with ERROR(AccessViolation, "No more available connections"), calls
\* neither open nor close and leaves the table as it was; with an owned
\* table, appends one slot, leaves the others as they were, calls open and,
\* open succeeding and the socket taking the reply, puts the new transfer
\* in the appended slot.
C9_Capacity ==
    [][(/\ IsRequest(call')
        /\ ReprOf(call').mode = "Octet"
        /\ xfer_idx(transfers, call'.ep) = None
        /\ Occupied(transfers) = 1..Len(transfers)) =>
          IF managed = "Borrowed"
          THEN /\ transfers' = transfers
               /\ opened' = opened
               /\ closed' = closed
               /\ io' = <<>>
               /\ RepliedError(tx', ret', call'.ep, AccessViolation,
                               "No more available connections")
          ELSE /\ Len(transfers') = Len(transfers) + 1
               /\ \A i \in 1..Len(transfers) : transfers'[i] = transfers[i]
               /\ io' # <<>>
               /\ io'[1].op = "open"
               /\ io'[1].write_mode = (ReprOf(call').type = "WriteRequest")
               /\ (io'[1].ok /\ ret' = "Ok") =>
                     LET new == transfers'[Len(transfers')]
                     IN  /\ new # None
                         /\ new[1].ep = call'.ep
                         /\ new[1].is_write = io'[1].write_mode
                         /\ new[1].block_num = 1
                         /\ new[1].handle.id = opened'
                         /\ opened' = opened + 1
      ]_vars

\* A borrowed table is full and a request from another endpoint has been
\* refused.
C9_Witness ==
    /\ managed = "Borrowed"
    /\ Occupied(transfers) = 1..NumSlots
    /\ IsRequest(call)
    /\ xfer_idx(transfers, call.ep) = None
    /\ tx = <<[ep |-> call.ep,
               repr |-> Error(AccessViolation, "No more available connections")]>>

\* C10: no call to serve panics, whatever datagram it receives.  The code
\* violates it: check_len accepts a request whose only NUL byte lies in the
\* opcode, and Packet::filename then unwraps the position of a NUL byte that
\* the rest of the buffer does not hold.
C10_NeverPanics == ret # "Panic"

\* C11: a call in which Handle::read fails and which ends Ok has sent
\* ERROR(AccessViolation, "Error occurred while reading the file") and leaves
\* no transfer for the endpoint, the handle having been passed to
\* Context::close.  The code violates it: send_data returns Ok(false) after
\* sending the ERROR, and serve goes on as after a successful read: it
\* stores the new transfer, or keeps the existing one, and closes nothing.
C11_ReadFailureDrops ==
    \A k \in 1..Len(io) :
       (io[k].op = "read" /\ ~io[k].ok /\ ret = "Ok") =>
          /\ tx = <<[ep |-> call.ep,
                     repr |-> Error(AccessViolation,
                                    "Error occurred while reading the file")]>>
          /\ xfer_idx(transfers, call.ep) = None
          /\ \E c \in 1..Len(closed) : closed[c].id = io[k].id

\* C12: a call in which Handle::write fails sends no ACK; the socket taking
\* the reply, it has sent ERROR(AccessViolation, "Error writing file") and
\* nothing else, has freed the slot and has passed the handle to
\* Context::close; the socket refusing the reply, it has sent nothing.
C12_WriteFailureTerminates ==
    \A k \in 1..Len(io) :
       (io[k].op = "write" /\ ~io[k].ok) =>
          /\ RepliedError(tx, ret, call.ep, AccessViolation, "Error writing file")
          /\ ret = "Ok" =>
                /\ xfer_idx(transfers, call.ep) = None
                /\ io[Len(io)] = [op |-> "close", id |-> io[k].id]
                /\ closed # <<>>
                /\ closed[Len(closed)].id = io[k].id

\* A write has failed, the ERROR has been sent and the transfer is gone.
C12_Witness ==
    /\ IsPacketOf(call, call.ep, "Data")
    /\ \E k \in 1..Len(io) : io[k].op = "write" /\ ~io[k].ok
    /\ tx = <<[ep |-> call.ep,
               repr |-> Error(AccessViolation, "Error writing file")]>>
    /\ xfer_idx(transfers, call.ep) = None

\* C13: every handle that Context::open has returned is held by exactly one
\* occupied slot and has not been closed, or is held by no slot and has been
\* passed to Context::close exactly once.  The code violates it: when the
\* socket refuses the first packet of a new transfer, `?` returns from serve
\* and the transfer, with its handle, is dropped without Context::close.
C13_HandleAccounting ==
    \A id \in 1..opened :
       LET held == {i \in Occupied(transfers) : transfers[i][1].handle.id = id}
           shut == {c \in 1..Len(closed) : closed[c].id = id}
       IN  \/ Cardinality(held) = 1 /\ shut = {}
           \/ held = {} /\ Cardinality(shut) = 1

\* Whether the client's call c was a poll that received the datagram of a
\* server (mode 4 in the low bits of byte 0) with stratum byte st.
PolledServer(c) ==
    /\ c.op = "poll" /\ c.rx.kind = "packet"
    /\ Len(c.rx.buf) >= SNTP_LEN
    /\ c.rx.buf[1] % 8 = 4

\* Whether the client's latest call returned a timestamp.
GotTimestamp == sntp_call.op = "poll" /\ sntp_out.ok /\ sntp_out.val # None

\* C14: while no response has been accepted, the k-th request sets
\* next_request to now + min(MAX_REQUEST_INTERVAL, MIN_REQUEST_INTERVAL *
\* 2^(k-1)) and doubles the interval up to MAX_REQUEST_INTERVAL, where it
\* stays; a call that sends no request changes neither.
C14_Backoff ==
    [][accepted' = 0 =>
         IF sent' = sent + 1
         THEN /\ next_request' =
                    sntp_now' + Min(MAX_REQUEST_INTERVAL, MIN_REQUEST_INTERVAL * 2^sent)
              /\ curr_interval' = Min(MAX_REQUEST_INTERVAL, 2 * curr_interval)
              /\ curr_interval' >= curr_interval
              /\ curr_interval = MAX_REQUEST_INTERVAL =>
                    curr_interval' = MAX_REQUEST_INTERVAL
         ELSE /\ sent' = sent
              /\ next_request' = next_request
              /\ curr_interval' = curr_interval
      ]_vars

\* Twelve requests have gone unanswered, and the twelfth has scheduled the
\* next one MAX_REQUEST_INTERVAL later.
C14_Witness ==
    /\ accepted = 0
    /\ sent = 12
    /\ sntp_tx # <<>>
    /\ curr_interval = MAX_REQUEST_INTERVAL
    /\ next_request = sntp_now + MAX_REQUEST_INTERVAL

\* C15: curr_interval lies between MIN_REQUEST_INTERVAL and
\* MAX_REQUEST_INTERVAL in every state.
C15_IntervalRange ==
    /\ curr_interval >= MIN_REQUEST_INTERVAL
    /\ curr_interval <= MAX_REQUEST_INTERVAL

\* The interval has reached MAX_REQUEST_INTERVAL and a request has been
\* sent since, after a response was accepted.
C15_Witness ==
    /\ curr_interval = MAX_REQUEST_INTERVAL
    /\ accepted = 1
    /\ sntp_tx # <<>>

\* C16: after a poll that returns a timestamp, curr_interval is
\* MAX_REQUEST_INTERVAL.  The code violates it: the Some arm of poll sets
\* next_request and leaves curr_interval as it was.
C16_ResetOnAcceptance ==
    GotTimestamp => curr_interval = MAX_REQUEST_INTERVAL

\* C17: a poll that receives a datagram returns a timestamp exactly when
\* the datagram has 48 bytes or more, mode Server and a stratum other than
\* 0; the timestamp is the transmit seconds plus DIFF_SEC_1970_2036 modulo
\* 2^32, next_request becomes now + MAX_REQUEST_INTERVAL, and the poll sends
\* nothing.
C17_Acceptance ==
    [][(sntp_call'.op = "poll" /\ sntp_call'.rx.kind = "packet") =>
         LET buf == sntp_call'.rx.buf
             sec == <<buf[41] * 256 + buf[42], buf[43] * 256 + buf[44]>>
             low == sec[2] + u32(DIFF_SEC_1970_2036)[2]
             high == sec[1] + u32(DIFF_SEC_1970_2036)[1] + (low \div (U16_MAX + 1))
         IN  IF PolledServer(sntp_call') /\ buf[2] # 0
             THEN /\ sntp_out' = Ok(Some(<<high % (U16_MAX + 1), low % (U16_MAX + 1)>>))
                  /\ next_request' = sntp_now' + MAX_REQUEST_INTERVAL
                  /\ sntp_tx' = <<>>
                  /\ sent' = sent
             ELSE ~(sntp_out'.ok /\ sntp_out'.val # None)
      ]_vars

\* A response whose transmit seconds are 2 208 988 800 has been accepted as
\* the timestamp 0.
C17_Witness ==
    /\ GotTimestamp
    /\ sntp_call.rx.buf = SntpDatagram(36, 1, <<33706, 32384>>)
    /\ sntp_out = Ok(Some(<<0, 0>>))
    /\ next_request = sntp_now + MAX_REQUEST_INTERVAL

\* C18, as stated: a poll that receives a server's response of stratum 0
\* returns no timestamp and leaves next_request and curr_interval as they
\* were.
C18_KissOfDeathFrame ==
    [][(PolledServer(sntp_call') /\ sntp_call'.rx.buf[2] = 0) =>
         /\ ~(sntp_out'.ok /\ sntp_out'.val # None)
         /\ next_request' = next_request
         /\ curr_interval' = curr_interval
      ]_vars

\* C18, amended: a poll that receives a server's response of stratum 0
\* returns no timestamp and goes on as a poll that received nothing: unless
\* the socket can send and now >= next_request it sends nothing and leaves
\* next_request and curr_interval as they were; otherwise it sends a
\* request, sets next_request to now + curr_interval and doubles
\* curr_interval up to MAX_REQUEST_INTERVAL, or, the socket refusing the
\* request, returns the error and changes nothing.
C18_KissOfDeathAsNoPacket ==
    [][(PolledServer(sntp_call') /\ sntp_call'.rx.buf[2] = 0) =>
         /\ ~(sntp_out'.ok /\ sntp_out'.val # None)
         /\ IF sntp_call'.can_send /\ sntp_now' >= next_request
            THEN \/ /\ sntp_out' = Ok(None)
                    /\ sent' = sent + 1
                    /\ next_request' = sntp_now' + curr_interval
                    /\ curr_interval' = Min(MAX_REQUEST_INTERVAL, 2 * curr_interval)
                 \/ /\ ~sntp_out'.ok
                    /\ sent' = sent
                    /\ next_request' = next_request
                    /\ curr_interval' = curr_interval
            ELSE /\ sntp_out' = Ok(None)
                 /\ sent' = sent
                 /\ next_request' = next_request
                 /\ curr_interval' = curr_interval
      ]_vars

\* A kiss-o'-death has arrived before the deadline of the next request.
C18_Witness ==
    /\ PolledServer(sntp_call) /\ sntp_call.rx.buf[2] = 0
    /\ sntp_call.can_send
    /\ sent = 1
    /\ sntp_now < next_request
    /\ sntp_out = Ok(None)
    /\ sntp_tx = <<>>

\* C19: next_poll(now) returns the deadline minus now when the deadline is
\* in the future, and zero otherwise.  The code violates it: it returns
\* `self.next_request - now`, and smoltcp's Instant - Instant is the
\* distance between the two Instants, so that a deadline passed d ms ago
\* yields a wait of d ms.
C19_NextPollSaturates ==
    sntp_call.op = "next_poll" =>
       sntp_out = IF next_request > sntp_now THEN next_request - sntp_now ELSE 0

\* C20: the retries of a transfer never exceed MAX_RETRIES, and the server
\* sends an endpoint from which no datagram arrives at most MAX_RETRIES + 1
\* DATA packets, the first emission of the block included.
C20_RetransmissionBound ==
    /\ \A i \in Occupied(transfers) : transfers[i][1].retries <= MAX_RETRIES
    /\ \A e \in Endpoints : hist[e].copies <= MAX_RETRIES + 1

\* A read transfer has sent its DATA block and has since seen
\* MAX_RETRIES + 1 calls in a row, RETRY_TIMEOUT apart, with nothing to
\* receive and the socket able to send.
C20_Witness ==
    /\ quiet >= MAX_RETRIES + 1
    /\ \E i \in Occupied(transfers) :
          /\ ~transfers[i][1].is_write
          /\ transfers[i][1].last_data # None
          /\ transfers[i][1].retries <= MAX_RETRIES
          /\ hist[transfers[i][1].ep].copies = 1

\* Whether the ErrorCode of the record r, if it has one, is the value that
\* From<u16> yields: a named variant, or Unknown(n) with n above 7.
FromU16(r) == r.type = "Error" => r.code = ErrorCode(error_code_u16(r.code))

\* C21, as stated: a record emitted into a buffer of buffer_len bytes is
\* parsed back as the same record, Unknown(n) of every n included, and a
\* canonical byte string parsed and emitted again is the same byte string.
C21_RoundTripEvery ==
    /\ wire.op = "emit" => wire.parsed = NoPanic(Ok(wire.repr))
    /\ (wire.op = "parse" /\ wire.buf \in CanonicalBytes) => wire.again = wire.buf

\* C21, amended: a record whose ErrorCode is a named variant or Unknown(n)
\* with n above 7 is parsed back as the same record; Unknown(n) with n from
\* 0 to 7 is parsed back as the variant named n; and a canonical byte string
\* parsed and emitted again is the same byte string, no byte of the buffer
\* keeping its FILLER.
C21_RoundTrip ==
    /\ wire.op = "emit" =>
          /\ ~wire.parsed.panic /\ wire.parsed.val.ok
          /\ FromU16(wire.repr) => wire.parsed.val.val = wire.repr
          /\ ~FromU16(wire.repr) =>
                wire.parsed.val.val =
                   Error(ErrorCode(error_code_u16(wire.repr.code)), wire.repr.msg)
    /\ (wire.op = "parse" /\ wire.buf \in CanonicalBytes) => wire.again = wire.buf

\* ERROR with the code Unknown(65535) has been emitted and parsed back.
C21_Witness ==
    /\ wire.op = "emit"
    /\ wire.repr = Error([code |-> "Unknown", n |-> U16_MAX], SubSeq(ERR_BYTES, 5, 9))
    /\ wire.parsed = NoPanic(Ok(wire.repr))

\* C22: on a buffer that Packet::check_len accepts, the accessors of the
\* buffer's opcode and Repr::parse do not panic.  The code violates it:
\* find_last_null_byte finds the NUL byte of the opcode, so that check_len
\* accepts every buffer of two bytes or more whose opcode is Read, Write or
\* Error.
C22_CheckedNeverPanics ==
    (wire.op = "parse" /\ wire.check.ok) =>
        /\ ~wire.fields.panic
        /\ ~wire.parsed.panic

\* C23: Packet::check_len returns Truncated for a buffer of fewer than 2
\* bytes, for DATA and ACK of fewer than 4 bytes, for RRQ, WRQ and ERROR
\* whose record after the opcode does not end in a NUL byte and for ERROR of
\* fewer than 5 bytes; Malformed for an opcode outside 1..5; Ok otherwise.
\* The code violates it, for the reason given at C22.
C23_CheckLen ==
    wire.op = "parse" =>
       LET buf == wire.buf
           op == read_u16(buf, 0)
       IN  wire.check =
              IF Len(buf) < 2 THEN Err("Truncated")
              ELSE IF op \notin 1..5 THEN Err("Malformed")
              ELSE IF op \in {3, 4}
                   THEN IF Len(buf) < 4 THEN Err("Truncated") ELSE Ok(TRUE)
              ELSE IF Len(buf) = 2 \/ buf[Len(buf)] # 0 \/ (op = 5 /\ Len(buf) < 5)
                   THEN Err("Truncated")
              ELSE Ok(TRUE)

\* The three rejections of C24 for a call c made in the state before it:
\* which ERROR the call owes the sender, if any.
Rejection(c, pre, calls, anyOwner) ==
    IF \E k \in 1..Len(calls) : calls[k].op = "open" /\ ~calls[k].ok
    THEN Some([code |-> FileNotFound, msg |-> "Unable to open requested file"])
    ELSE IF /\ IsRequest(c) /\ ReprOf(c).mode # "Octet"
            /\ (anyOwner \/ xfer_idx(pre, c.ep) = None)
    THEN Some([code |-> IllegalOperation, msg |-> "Only octet mode is supported"])
    ELSE IF /\ Decoded(c) /\ ReprOf(c).type \in {"Data", "Ack"}
            /\ xfer_idx(pre, c.ep) = None
    THEN Some([code |-> AccessViolation, msg |-> "Data packet without active transfer"])
    ELSE None

\* C24, as stated: a request whose mode is not octet, a request whose open
\* fails, and a DATA or ACK from an endpoint without a transfer are answered
\* with their ERROR and change nothing: the table, the handles opened and
\* the handles closed are as before, and a rejected mode opens nothing.
C24_RejectedChangeNothing ==
    [][LET rej == Rejection(call', transfers, io', TRUE)
       IN  rej # None =>
              /\ RepliedError(tx', ret', call'.ep, rej[1].code, rej[1].msg)
              /\ rej[1].code = IllegalOperation => io' = <<>>
              /\ transfers' = transfers
              /\ opened' = opened
              /\ closed' = closed
      ]_vars

\* C24, amended: a request whose mode is not octet, from an endpoint
\* without a transfer; a request whose open fails; and a DATA or ACK from an
\* endpoint without a transfer are answered with their ERROR; a rejected
\* mode opens nothing; no slot becomes occupied, no transfer is modified and
\* no handle is opened or closed.  The table itself may have grown by one
\* empty slot.
C24_Rejected ==
    [][LET rej == Rejection(call', transfers, io', FALSE)
       IN  rej # None =>
              /\ RepliedError(tx', ret', call'.ep, rej[1].code, rej[1].msg)
              /\ rej[1].code = IllegalOperation => io' = <<>>
              /\ Occupied(transfers') = Occupied(transfers)
              /\ \A i \in Occupied(transfers) : transfers'[i] = transfers[i]
              /\ Len(transfers') \in {Len(transfers), Len(transfers) + 1}
              /\ opened' = opened
              /\ closed' = closed
      ]_vars

\* A request has been refused because its file could not be opened, while
\* another endpoint owns a transfer, and the owned table holds the empty slot
\* that was added for it.
C24_Witness ==
    /\ IsRequest(call)
    /\ io # <<>> /\ io[1].op = "open" /\ ~io[1].ok
    /\ tx = <<[ep |-> call.ep, repr |-> Error(FileNotFound, "Unable to open requested file")]>>
    /\ ret = "Ok"
    /\ managed = "Owned"
    /\ Occupied(transfers) # {}
    /\ Len(transfers) > Cardinality(Occupied(transfers))

\* C25: a call that receives an ERROR packet answers the sender with
\* ERROR(IllegalOperation, "Unknown operation") and leaves the table as it
\* was, the sender's transfer with it: no slot, handle, block number,
\* retries or timeout changes, and nothing is read, written or closed.
C25_ErrorPacketFrame ==
    [][(Decoded(call') /\ ReprOf(call').type = "Error") =>
         /\ RepliedError(tx', ret', call'.ep, IllegalOperation, "Unknown operation")
         /\ transfers' = transfers
         /\ closed' = closed
         /\ io' = <<>>
      ]_vars

\* An ERROR packet has been answered while its sender owns a transfer.
C25_Witness ==
    /\ Decoded(call) /\ ReprOf(call).type = "Error"
    /\ xfer_idx(transfers, call.ep) # None
    /\ tx = <<[ep |-> call.ep, repr |-> Error(IllegalOperation, "Unknown operation")]>>
    /\ ret = "Ok"

\* C26: a call that receives a DATA packet from the owner of a read transfer
\* answers ERROR(AccessViolation, "Not a read connection"), writes nothing,
\* and leaves the transfer in its slot with its block number.  The code
\* violates it: the message it sends is "Not a write connection".
C26_DataOnRead ==
    [][(/\ Decoded(call') /\ ReprOf(call').type = "Data"
        /\ xfer_idx(transfers, call'.ep) # None
        /\ ~transfers[xfer_idx(transfers, call'.ep)[1]][1].is_write) =>
         LET i == xfer_idx(transfers, call'.ep)[1]
         IN  /\ RepliedError(tx', ret', call'.ep, AccessViolation, "Not a read connection")
             /\ io' = <<>>
             /\ closed' = closed
             /\ i \in Occupied(transfers')
             /\ transfers'[i][1].block_num = transfers[i][1].block_num
      ]_vars

\* C27: a call that receives, from the owner of a read transfer, an ACK
\* whose block number is not the transfer's, sends the DATA packet the
\* transfer holds again: its block number and the last_len bytes of
\* last_data, which for a transfer that has run without fault are the bytes
\* of that block of the file, sent before.  It reads nothing, and leaves the
\* transfer in its slot with its block number, its handle and its data.
C27_LateAck ==
    [][(/\ Decoded(call') /\ ReprOf(call').type = "Ack"
        /\ xfer_idx(transfers, call'.ep) # None
        /\ ~transfers[xfer_idx(transfers, call'.ep)[1]][1].is_write
        /\ ReprOf(call').block_num
              # transfers[xfer_idx(transfers, call'.ep)[1]][1].block_num) =>
         LET i == xfer_idx(transfers, call'.ep)[1]
             x == transfers[i][1]
             resent == Data(x.block_num, SubSeq(x.last_data[1], 1, x.last_len))
         IN  /\ \/ tx' = <<[ep |-> x.ep, repr |-> resent]>> /\ ret' = "Ok"
                \/ tx' = <<>> /\ ret' = "Err"
             /\ hist[x.ep].phase = "clean" =>
                   /\ resent.data = Chunk(hist[x.ep].size, x.block_num)
                   /\ hist[x.ep].dlog[Len(hist[x.ep].dlog)]
                         = [block_num |-> x.block_num, len |-> Len(resent.data)]
             /\ io' = <<>>
             /\ closed' = closed
             /\ i \in Occupied(transfers')
             /\ transfers'[i][1].block_num = x.block_num
             /\ transfers'[i][1].handle = x.handle
             /\ transfers'[i][1].last_data = x.last_data
             /\ transfers'[i][1].last_len = x.last_len
      ]_vars

\* ACK 1 has arrived resent after DATA 2 was sent, and DATA 2 has been sent
\* resent.
C27_Witness ==
    /\ Decoded(call) /\ ReprOf(call) = Ack(1)
    /\ io = <<>>
    /\ tx = <<[ep |-> call.ep, repr |-> Data(2, Chunk(1100, 2))]>>
    /\ xfer_idx(transfers, call.ep) # None
    /\ transfers[xfer_idx(transfers, call.ep)[1]][1].block_num = 2

\* C28: a call that receives, from the owner of a write transfer, a DATA
\* packet whose block number is not the transfer's, lower or higher, full or
\* short, answers with the ACK of the block before the transfer's, writes
\* nothing, and leaves the transfer in its slot with its block number and
\* its handle.
C28_DuplicateData ==
    [][(/\ Decoded(call') /\ ReprOf(call').type = "Data"
        /\ xfer_idx(transfers, call'.ep) # None
        /\ transfers[xfer_idx(transfers, call'.ep)[1]][1].is_write
        /\ ReprOf(call').block_num
              # transfers[xfer_idx(transfers, call'.ep)[1]][1].block_num) =>
         LET i == xfer_idx(transfers, call'.ep)[1]
             x == transfers[i][1]
         IN  /\ \/ tx' = <<[ep |-> x.ep, repr |-> Ack(x.block_num - 1)]>> /\ ret' = "Ok"
                \/ tx' = <<>> /\ ret' = "Err"
             /\ io' = <<>>
             /\ closed' = closed
             /\ i \in Occupied(transfers')
             /\ transfers'[i][1].block_num = x.block_num
             /\ transfers'[i][1].handle = x.handle
      ]_vars

\* Block 1 has arrived again, 300 bytes long, while block 2 was expected,
\* and ACK 1 has been sent again.
C28_Witness ==
    /\ Decoded(call) /\ ReprOf(call) = ClientData(1, 300)
    /\ io = <<>>
    /\ tx = <<[ep |-> call.ep, repr |-> Ack(1)]>>
    /\ xfer_idx(transfers, call.ep) # None
    /\ transfers[xfer_idx(transfers, call.ep)[1]][1].block_num = 2

\* C29: process_timeout on a transfer whose timeout lies in the future
\* leaves it in place, its retries as they were, and sends nothing; it
\* reports a transfer for termination only when the timeout has passed and
\* retries = MAX_RETRIES.  The code violates it: the test is
\* `now >= timeout && retries < MAX_RETRIES`, and its else branch, which
\* returns Ok(true), is also taken when now < timeout.
C29_BeforeDeadline ==
    timer.op # "new" =>
       /\ timer.now < timer.before.timeout =>
             /\ ~timer.drop
             /\ timer.x.retries = timer.before.retries
             /\ timer.sent = <<>>
       /\ timer.drop =>
             /\ timer.now >= timer.before.timeout
             /\ timer.before.retries = MAX_RETRIES

\* C30: a retransmission by process_timeout at time now sets the transfer's
\* timeout to now + RETRY_TIMEOUT, and two retransmissions in a row of a
\* transfer are RETRY_TIMEOUT apart or more.  The code violates it:
\* process_timeout increments retries and sends, and leaves timeout as it
\* was.
C30_Rearmed ==
    (timer.op = "kept" /\ timer.x.retries = timer.before.retries + 1) =>
       /\ timer.x.timeout = timer.now + RETRY_TIMEOUT
       /\ (timer.sent # <<>> /\ timer.prev # None) =>
             timer.now - timer.prev[1] >= RETRY_TIMEOUT

\* C31: a call sends at most one request, and sends it only when it is a
\* poll that produced no timestamp, the socket could send and now >=
\* next_request; so a request comes MIN_REQUEST_INTERVAL or more after the
\* request before it, and MAX_REQUEST_INTERVAL or more after the latest
\* accepted response.
C31_RequestGating ==
    [][/\ Len(sntp_tx') <= 1
       /\ sent' # sent =>
             /\ sent' = sent + 1
             /\ Len(sntp_tx') = 1
             /\ sntp_call'.op = "poll"
             /\ ~(sntp_out'.ok /\ sntp_out'.val # None)
             /\ sntp_call'.can_send
             /\ sntp_now' >= next_request
             /\ sntp_log.requested # None =>
                   sntp_now' - sntp_log.requested[1] >= MIN_REQUEST_INTERVAL
             /\ sntp_log.accepted # None =>
                   sntp_now' - sntp_log.accepted[1] >= MAX_REQUEST_INTERVAL
      ]_vars

\* The second request has gone out MIN_REQUEST_INTERVAL after the first,
\* and a later one MAX_REQUEST_INTERVAL after an accepted response.
C31_Witness ==
    /\ sntp_tx # <<>>
    /\ sent = 3
    /\ accepted = 1
    /\ sntp_log.accepted # None
    /\ sntp_now = sntp_log.accepted[1] + MAX_REQUEST_INTERVAL
    /\ sntp_log.accepted[1] >= 2 * MIN_REQUEST_INTERVAL

\* C32: a poll whose recv fails with an error other than Exhausted returns
\* Err; a poll that receives nothing or an invalid datagram (shorter than
\* 48 bytes, in a mode other than Server, or of stratum 0) goes on to the
\* request and returns Err only when the socket refuses that request; a
\* poll that returns Err has sent nothing and has changed neither
\* next_request nor curr_interval.
C32_ErrorOutcomes ==
    [][sntp_call'.op = "poll" =>
         LET rx == sntp_call'.rx
             due == sntp_call'.can_send /\ sntp_now' >= next_request
             invalid == /\ rx.kind = "packet"
                        /\ \/ Len(rx.buf) < SNTP_LEN
                           \/ rx.buf[1] % 8 # 4
                           \/ rx.buf[2] = 0
         IN  /\ rx.kind = "error" => ~sntp_out'.ok
             /\ (rx.kind = "exhausted" \/ invalid) =>
                   IF due
                   THEN \/ sntp_out' = Ok(None) /\ sent' = sent + 1
                        \/ ~sntp_out'.ok /\ sent' = sent
                   ELSE sntp_out' = Ok(None) /\ sent' = sent
             /\ (~sntp_out'.ok /\ rx.kind # "error") => due
             /\ ~sntp_out'.ok =>
                   /\ next_request' = next_request
                   /\ curr_interval' = curr_interval
                   /\ sntp_tx' = <<>>
      ]_vars

\* A poll has received a datagram one byte short when a request was due,
\* and the socket has refused the request.
C32_Witness ==
    /\ sntp_call.op = "poll" /\ sntp_call.rx.kind = "packet"
    /\ Len(sntp_call.rx.buf) < SNTP_LEN
    /\ sntp_call.can_send
    /\ sntp_now >= next_request
    /\ ~sntp_out.ok
    /\ sent = 1

\* C38: a poll returns a timestamp only for a datagram that came from the
\* configured server's address and port 123, and only once a request has
\* been sent; a server's response from another endpoint, or before any
\* request, yields no timestamp and leaves next_request as it was.  The
\* code violates it: poll drops the endpoint that recv returns and keeps no
\* record of a request being outstanding.
C38_FromServerOnly ==
    [][(sntp_call'.op = "poll" /\ sntp_call'.rx.kind = "packet") =>
         LET solicited ==
                /\ sntp_call'.rx.src = [addr |-> ntp_server, port |-> SNTP_PORT]
                /\ sent >= 1
         IN  /\ (sntp_out'.ok /\ sntp_out'.val # None) => solicited
             /\ (PolledServer(sntp_call') /\ ~solicited) =>
                   /\ ~(sntp_out'.ok /\ sntp_out'.val # None)
                   /\ sntp_now' < next_request => next_request' = next_request
      ]_vars

\* C33: every Handle::write of a serve call passes at most 512 bytes and
\* every Handle::read passes a buffer of exactly 512 bytes.  The code
\* violates it: the Data arm passes `data`, all of the datagram after its
\* first four bytes, to Handle::write without looking at its length.
C33_BufferSizes ==
    \A i \in 1..Len(io) :
       /\ io[i].op = "write" => io[i].len <= BLOCK_SIZE
       /\ io[i].op = "read" => io[i].len = BLOCK_SIZE

\* C34, as stated: the mode of a request is decided by the first byte of
\* its mode string (b, the byte after the NUL that ends the filename), 'N'/'n' NetAscii, 'O'/'o' Octet, 'M'/'m' Mail, anything
\* else Unknown; the server admits a request (goes on to open the file, or
\* finds no slot for it) exactly when that byte is 'o' or 'O' and answers every other request with ERROR(IllegalOperation, "Only
\* octet mode is supported").
C34_ModeEveryRequest ==
    [][IsRequest(call') =>
         LET buf == call'.buf
             p == CHOOSE i \in 3..Len(buf) :
                     buf[i] = 0 /\ \A j \in 3..(i - 1) : buf[j] # 0
             b == buf[p + 1]
             admitted ==
                \/ \E k \in 1..Len(io') : io'[k].op = "open"
                \/ tx' = <<[ep |-> call'.ep,
                            repr |-> Error(AccessViolation,
                                           "No more available connections")]>>
         IN  /\ ReprOf(call').mode =
                   IF b \in {78, 110} THEN "NetAscii"
                   ELSE IF b \in {79, 111} THEN "Octet"
                   ELSE IF b \in {77, 109} THEN "Mail" ELSE "Unknown"
             /\ IF b \in {79, 111}
                THEN admitted
                ELSE /\ RepliedError(tx', ret', call'.ep, IllegalOperation,
                                     "Only octet mode is supported")
                     /\ io' = <<>>
      ]_vars

\* C34, amended: the mode is decided by the first byte of the mode string
\* as stated; a request from an endpoint that owns no transfer is admitted
\* exactly when that byte is 'o' or 'O', and is otherwise answered with
\* ERROR(IllegalOperation, "Only octet mode is supported"); a request from
\* an endpoint that owns a transfer never reaches the mode check and is
\* never answered with that ERROR.
C34_ModeByFirstByte ==
    [][IsRequest(call') =>
         LET buf == call'.buf
             p == CHOOSE i \in 3..Len(buf) :
                     buf[i] = 0 /\ \A j \in 3..(i - 1) : buf[j] # 0
             b == buf[p + 1]
             admitted ==
                \/ \E k \in 1..Len(io') : io'[k].op = "open"
                \/ tx' = <<[ep |-> call'.ep,
                            repr |-> Error(AccessViolation,
                                           "No more available connections")]>>
             refused == RepliedError(tx', ret', call'.ep, IllegalOperation,
                                     "Only octet mode is supported")
         IN  /\ ReprOf(call').mode =
                   IF b \in {78, 110} THEN "NetAscii"
                   ELSE IF b \in {79, 111} THEN "Octet"
                   ELSE IF b \in {77, 109} THEN "Mail" ELSE "Unknown"
             /\ IF xfer_idx(transfers, call'.ep) # None
                THEN ~refused /\ ~admitted
                ELSE IF b \in {79, 111}
                THEN admitted /\ ~refused
                ELSE refused /\ io' = <<>> /\ transfers' = transfers
      ]_vars

\* A write request in mode "O" has been admitted: the file was opened and
\* the sender owns a transfer.
C34_Witness ==
    /\ IsRequest(call)
    /\ call.buf = <<0, 2>> \o FName \o <<0, 79, 0>>
    /\ io # <<>> /\ io[1].op = "open" /\ io[1].ok
    /\ xfer_idx(transfers, call.ep) # None
    /\ tx = <<[ep |-> call.ep, repr |-> Ack(0)]>>

\* C35: every DATA packet sent for a read transfer carries, under block
\* number n, the bytes that the n-th successful Handle::read of the transfer
\* returned: block n of the file.  The code violates it: after a Handle::read
\* that fails, serve keeps the transfer, whose block number has moved on
\* while last_data and last_len have not, and a later ACK makes resend_data
\* send that stale payload under the new block number.
C35_ReadIntegrity ==
    [][\A k \in 1..Len(tx') :
          tx'[k].repr.type = "Data" =>
             LET i == xfer_idx(transfers', tx'[k].ep)
             IN  /\ i # None
                 /\ tx'[k].repr.data =
                       Chunk(transfers'[i[1]][1].handle.size, tx'[k].repr.block_num)
      ]_vars

\* C36: a call that receives a DATA or ACK packet from the owner of a
\* transfer leaves that transfer, unless it ends the transfer, with retries
\* 0 and timeout now + RETRY_TIMEOUT, whether or not the block number matches
\* and the packet suits the transfer's direction; a call that receives a
\* request or an ERROR packet from the owner leaves the transfer as it was.
C36_ResetOnDataOrAck ==
    [][(/\ Decoded(call')
        /\ xfer_idx(transfers, call'.ep) # None
        /\ ret' # "Panic") =>
         LET i == xfer_idx(transfers, call'.ep)[1]
         IN  IF ReprOf(call').type \in {"Data", "Ack"}
             THEN transfers'[i] # None =>
                     /\ transfers'[i][1].retries = 0
                     /\ transfers'[i][1].timeout = now' + RETRY_TIMEOUT
             ELSE transfers'[i] = transfers[i]
      ]_vars

\* An ACK has reached the owner of a write transfer one RETRY_TIMEOUT after
\* the transfer's latest packet: it has been refused and the timeout has
\* moved all the same.
C36_Witness ==
    /\ Decoded(call) /\ ReprOf(call).type = "Ack"
    /\ now = RETRY_TIMEOUT
    /\ xfer_idx(transfers, call.ep) # None
    /\ transfers[xfer_idx(transfers, call.ep)[1]][1].is_write
    /\ transfers[xfer_idx(transfers, call.ep)[1]][1].timeout = 2 * RETRY_TIMEOUT
    /\ tx = <<[ep |-> call.ep,
               repr |-> Error(AccessViolation, "Not a read connection")]>>

\* C37, as stated: the block number of every transfer lies in 1..65535 in
\* every state, and neither its increment nor the `block_num - 1` of a
\* duplicate DATA overflows, however long the transfer.
C37_BlockNumberRange ==
    /\ ret # "Panic"
    /\ \A i \in Occupied(transfers) :
          /\ transfers[i][1].block_num >= 1
          /\ transfers[i][1].block_num <= U16_MAX

\* C37, amended: the block number of a transfer starts at 1 and each
\* accepted block adds one, so that it lies in 1..65535 through the first
\* 65534 accepted blocks, and a duplicate DATA is then answered with
\* ACK(block_num - 1).  Accepting the block numbered 65535 overflows: the
\* call panics, or, in a build without overflow checks, leaves the block
\* number at 0; a duplicate DATA that finds the block number at 0 makes the
\* call panic or answer ACK(65535).
C37_BlockNumberUntilWrap ==
    [][/\ \A i \in Occupied(transfers') :
             (transfers'[i][1].block_num = 0) =>
                \/ i \in Occupied(transfers) /\ transfers[i][1].block_num = 0
                \/ i \in Occupied(transfers) /\ transfers[i][1].block_num = U16_MAX
       /\ (/\ Decoded(call')
           /\ ReprOf(call').type \in {"Data", "Ack"}
           /\ xfer_idx(transfers, call'.ep) # None) =>
             LET i == xfer_idx(transfers, call'.ep)[1]
                 x == transfers[i][1]
                 n == x.block_num
                 kept(k) == transfers'[i] # None => transfers'[i][1].block_num = k
             IN  IF (ReprOf(call').type = "Data") # x.is_write
                 THEN ret' # "Panic" /\ kept(n)
                 ELSE IF ReprOf(call').block_num = n
                 THEN IF n < U16_MAX
                      THEN ret' # "Panic" /\ kept(n + 1)
                      ELSE ret' = "Panic" \/ kept(0)
                 ELSE IF ~x.is_write
                 THEN ret' # "Panic" /\ kept(n)
                 ELSE IF n > 0
                 THEN /\ ret' # "Panic" /\ kept(n)
                      /\ tx' = <<[ep |-> call'.ep, repr |-> Ack(n - 1)]>>
                 ELSE \/ ret' = "Panic"
                      \/ /\ kept(0)
                         /\ tx' = <<[ep |-> call'.ep, repr |-> Ack(U16_MAX)]>>
      ]_vars

\* A write transfer whose block number has wrapped to 0 has answered the
\* repeated DATA block 65534 with ACK(65535).
C37_Witness ==
    /\ Decoded(call) /\ ReprOf(call).type = "Data"
    /\ ReprOf(call).block_num = U16_MAX - 1
    /\ ret = "Ok"
    /\ xfer_idx(transfers, call.ep) # None
    /\ transfers[xfer_idx(transfers, call.ep)[1]][1].is_write
    /\ transfers[xfer_idx(transfers, call.ep)[1]][1].block_num = 0
    /\ tx = <<[ep |-> call.ep, repr |-> Ack(U16_MAX)]>>

====
